---- MODULE Spec2Model ----
(***************************************************************************)
(* CosmicDataRelay: the scheduler (src/src/scheduler/scheduler.ts), the    *)
(* part of the config loader that resolves a source                         *)
(* (src/src/config/index.ts), the crawler (src/src/crawler/crawler.ts),     *)
(* the WebSocket server and the HTTP API, as one state machine.             *)
(*                                                                         *)
(* Time is the millisecond clock Date.now().  A handler of the Node event   *)
(* loop runs without interleaving up to its next await, so every action     *)
(* below is one such stretch of code.                                       *)
(***************************************************************************)
EXTENDS Integers, Sequences, FiniteSets, TLC

VARIABLES
    now,            \* Date.now()
    baseConfig,     \* the validated YAML of each source (SourceConfig)
    config,         \* ResolvedSourceConfig of each source, Scheduler.sources
    maxConcurrency, \* Scheduler.maxConcurrency
    timer,          \* an interval set by start() is active (with one call
                    \* of start(): Scheduler.timer is set)
    state,          \* Scheduler.state: Map<string, SchedulerState>
    inFlight,       \* Scheduler.inFlight
    runs,           \* the runSource calls that have not settled
    failureCount,   \* the Store's Source.failureCount of each source
    dispatched,     \* number of runSource calls made so far
    advances,       \* number of clock steps taken so far
    budget,         \* what a behaviour is bounded by: runSource calls, clock
                    \* steps, Store faults, restarts, connections, failing
                    \* transports, HTTP requests and their dates, runs of
                    \* cleanupHistory, calls of start() and stop()
    obs,            \* observer: per source, what its runs did
    lastDone,       \* observer: the latest settled crawl
    pc,             \* per runSource call: the await crawlSource is suspended on
    sourceStatus,   \* the Store's SourceStatus rows, in the order created
    sourceData,     \* the Store's SourceData rows, in the order created
    listeners,      \* eventBus: the listeners, in the order registered
    conns,          \* per WebSocket connection: its source and position
    sent,           \* per WebSocket connection: the messages sent on it
    faults,         \* number of Store calls that have thrown so far
    restarts,       \* number of times the process has been restarted
    lastCrawl,      \* observer: the latest runSource call that ended
    dataSeq,        \* the Store's autoincrement of SourceData.id
    api,            \* the HTTP request being served, and its response
    sweep,          \* Scheduler.cleanupHistory: its position and its runs
    browser,        \* crawler.ts: browserInstance, the launches so far, and
                    \* the launches that preceded the latest shutdownCrawler
    wsServer,       \* which registerWsServer serves /ws/sources/:id, and
                    \* with which arguments it was called
    life            \* Scheduler.start and stop: the calls of start() that
                    \* are hydrating, the handles in this.timer and
                    \* this.cleanupTimer, the intervals that are active, and
                    \* the runs whose state object hydrateState replaced

\* what the crawler, the Store's rows and the WebSocket server add to the
\* scheduler's state
crawlVars == << pc, sourceStatus, sourceData, listeners, conns, sent, faults,
                restarts, lastCrawl, dataSeq, api, sweep, browser, wsServer >>

vars == << now, baseConfig, config, maxConcurrency, timer, life, state,
           inFlight, runs, failureCount, dispatched, advances, budget, obs,
           lastDone, crawlVars >>

----------------------------------------------------------------------------
(* Bounds of the model *)

\* runSource calls and clock steps in one behaviour of two sources
MaxRunsPair == 2
MaxAdvancesPair == 1
\* the same, with one source allowed
MaxRunsSolo == 2
MaxAdvancesSolo == 1
\* the same, with one source that its first failure pauses
MaxRunsProbe == 3
MaxAdvancesProbe == 2
\* the same, with one source of the default schedule and a clock that moves
\* a day at a time
MaxRunsDaily == 5
MaxAdvancesDaily == 4
\* Math.random() is drawn from { k / RandDen : k \in 0 .. RandDen - 1 }
RandDen == 3
\* the largest Source.failureCount found in the Store at boot
MaxBootFailures == 1
\* runSource calls and clock steps in one behaviour of two sources under a
\* concurrency cap of 1, with a clock that moves a day at a time
MaxRunsQueue == 3
MaxAdvancesQueue == 1
\* runSource calls and clock steps in one behaviour that follows a crawl
\* await by await
MaxRunsCrawl == 2
MaxAdvancesCrawl == 1
\* Store calls that throw, and restarts of the process, in such a behaviour
MaxFaults == 1
MaxRestarts == 1
\* runSource calls, clock steps, HTTP requests and runs of cleanupHistory in
\* one behaviour of the retention window
MaxRunsStore == 2
MaxAdvancesStore == 2
MaxQueries == 1
MaxSweeps == 1
\* runSource calls, and connections whose transport fails, in a behaviour
\* with a failing transport
MaxRunsTransport == 1
MaxBreaks == 1

\* runSource calls with two subscribers of one source
MaxRunsSubscribers == 1

\* runSource calls and requests in a behaviour with POST /api/preview
MaxRunsPreview == 1
MaxPreviews == 1

\* runSource calls in a behaviour with a connection and a signal
MaxRunsShutdown == 1

\* runs dispatched when two sources are crawled side by side
MaxRunsNeighbours == 2

\* calls of start() and of stop(), runSource calls and runs of
\* cleanupHistory in a behaviour of the start/stop calls
MaxStarts == 2
MaxStops == 1
MaxRunsLife == 1
MaxAdvancesLife == 1
MaxSweepsLife == 1

\* runSource calls and clock steps in a behaviour in which cleanupHistory
\* runs again and again, and the runs of it that are counted
MaxRunsPeriodic == 2
MaxAdvancesPeriodic == 2
MaxSweepsCounted == 1

\* Store calls that throw in that behaviour
MaxFaultsPeriodic == 2

\* runSource calls and runs of cleanupHistory in a behaviour with one
\* start() and one stop()
MaxRunsUpkeep == 1

\* runSource calls, clock steps and Store calls that throw in a behaviour of
\* one source and two slots
MaxRunsWired == 4
MaxAdvancesWired == 2
MaxFaultsWired == 2
MaxSweepsUpkeep == 1

----------------------------------------------------------------------------
(* Program constants *)

\* shared/constants.ts is not among the sources; the value is the one the
\* README gives: effectiveIntervalMs = max(20_000ms, schedule.intervalMs)
MIN_CRAWL_INTERVAL_MS == 20000

pauseMs == 24 * 60 * 60 * 1000

\* this.sources, in the order the loader returned them
sources == << "a", "b" >>

SourceIds == { sources[i] : i \in 1 .. Len(sources) }

\* The clock steps: just under the floor of an interval, and a day.
TimeSteps == { MIN_CRAWL_INTERVAL_MS - 1000, pauseMs }

\* maxConcurrency: 2 in index.ts (and the constructor's default), and 1
ConcurrencyCaps == { 1, 2 }

\* shared/constants.ts is not among the sources; the retention window is the
\* 4 hours of the README
RETENTION_WINDOW_MS == 4 * 60 * 60 * 1000

\* one hour
HourMs == 60 * 60 * 1000

\* the WebSocket connections made to /ws/sources/:id
connections == << "c1", "c2", "c3" >>

Connections == { connections[i] : i \in 1 .. Len(connections) }

----------------------------------------------------------------------------
(* Source configurations accepted by scheduleSchema / sourceSchema.         *)
(* backoffMultiplier is the positive number backoffNum / backoffDen.        *)

\* the defaults of scheduleSchema, under an interval below the floor
ProfileDefault ==
    [ intervalMs |-> 1000, jitterMs |-> 0, backoffNum |-> 2, backoffDen |-> 1,
      maxBackoffMs |-> 3600000, failureLimit |-> 5,
      allowedToScrape |-> TRUE, enabled |-> TRUE ]

\* jitter, and a multiplier below 1
ProfileJitter ==
    [ intervalMs |-> 5000, jitterMs |-> 1000, backoffNum |-> 1, backoffDen |-> 2,
      maxBackoffMs |-> 3600000, failureLimit |-> 2,
      allowedToScrape |-> TRUE, enabled |-> TRUE ]

\* an interval above the floor, and a maxBackoffMs below the first backoff
ProfileSlow ==
    [ intervalMs |-> 30000, jitterMs |-> 0, backoffNum |-> 2, backoffDen |-> 1,
      maxBackoffMs |-> 50000, failureLimit |-> 3,
      allowedToScrape |-> TRUE, enabled |-> TRUE ]

\* paused by its first failure
ProfileFragile ==
    [ intervalMs |-> 20000, jitterMs |-> 1000, backoffNum |-> 3, backoffDen |-> 2,
      maxBackoffMs |-> 1000, failureLimit |-> 1,
      allowedToScrape |-> TRUE, enabled |-> TRUE ]

\* not allowed to be scraped
ProfileForbidden ==
    [ intervalMs |-> 1000, jitterMs |-> 0, backoffNum |-> 2, backoffDen |-> 1,
      maxBackoffMs |-> 3600000, failureLimit |-> 5,
      allowedToScrape |-> FALSE, enabled |-> TRUE ]

\* allowed to be scraped, and switched off
ProfileDisabled ==
    [ intervalMs |-> 1000, jitterMs |-> 0, backoffNum |-> 2, backoffDen |-> 1,
      maxBackoffMs |-> 3600000, failureLimit |-> 5,
      allowedToScrape |-> TRUE, enabled |-> FALSE ]

Profiles ==
    { ProfileDefault, ProfileJitter, ProfileSlow, ProfileFragile,
      ProfileForbidden }

PairProfiles == { ProfileDefault, ProfileSlow, ProfileForbidden }

----------------------------------------------------------------------------
(* Pure functions *)

Max(a, b) == IF a >= b THEN a ELSE b

Min(a, b) == IF a <= b THEN a ELSE b

RECURSIVE Pow(_, _)
Pow(b, e) == IF e <= 0 THEN 1 ELSE b * Pow(b, e - 1)

\* A raw interval used where the floor belongs.
effectiveIntervalMsNoFloor(base) == base.intervalMs

\* Math.max(MIN_CRAWL_INTERVAL_MS, baseConfig.schedule.intervalMs)
effectiveIntervalMs(base) == Max(MIN_CRAWL_INTERVAL_MS, base.intervalMs)

\* resolvedEnabled = baseConfig.allowedToScrape && baseConfig.enabled
resolvedEnabled(base) == base.allowedToScrape /\ base.enabled

\* resolveSourceConfig: the schedule with effectiveIntervalMs added, and
\* enabled overwritten by allowedToScrape && enabled.
resolveSourceConfig(base) ==
    [ intervalMs          |-> base.intervalMs,
      jitterMs            |-> base.jitterMs,
      backoffNum          |-> base.backoffNum,
      backoffDen          |-> base.backoffDen,
      maxBackoffMs        |-> base.maxBackoffMs,
      failureLimit        |-> base.failureLimit,
      allowedToScrape     |-> base.allowedToScrape,
      effectiveIntervalMs |-> effectiveIntervalMs(base),
      enabled             |-> resolvedEnabled(base) ]

\* The offset without the "- jitterMs" term: never negative.
computeJitterMsOneSided(jitterMs, k) ==
    IF jitterMs = 0 THEN 0 ELSE (2 * jitterMs * k) \div RandDen

\* computeJitterMs with Math.random() = k / RandDen:
\* Math.floor(random * jitterMs * 2 - jitterMs), and 0 when jitterMs is 0.
\* (\div rounds down, as Math.floor does.)
computeJitterMs(jitterMs, k) ==
    IF jitterMs = 0
    THEN 0
    ELSE (2 * jitterMs * k - jitterMs * RandDen) \div RandDen

\* The exponent one too small: the first failure waits one plain interval.
backoffMsLagging(schedule, failures) ==
    Min( (schedule.effectiveIntervalMs * Pow(schedule.backoffNum, failures - 1))
            \div Pow(schedule.backoffDen, failures - 1),
         schedule.maxBackoffMs )

\* Math.min(effectiveIntervalMs * Math.pow(backoffMultiplier, failures),
\*          maxBackoffMs).
\* Math.pow works in doubles; every profile keeps the product integral for
\* the failure counts below its failureLimit, where the value is used, and
\* above the limit the value is overwritten by the pause.
backoffMs(schedule, failures) ==
    Min( (schedule.effectiveIntervalMs * Pow(schedule.backoffNum, failures))
            \div Pow(schedule.backoffDen, failures),
         schedule.maxBackoffMs )

\* A limit that is reached one failure late.
reachedFailureLimitLate(failures, schedule) == failures > schedule.failureLimit

\* state.failures >= source.schedule.failureLimit
reachedFailureLimit(failures, schedule) == failures >= schedule.failureLimit

\* A cap that lets one run too many through.
capReachedLate(n, cap) == n > cap

\* this.inFlight >= this.maxConcurrency
capReached(n, cap) == n >= cap

\* A success that leaves the failure count alone.
onSuccessKeepFailures(st, schedule, jitter, t) ==
    [ nextRun |-> t + schedule.effectiveIntervalMs + jitter,
      failures |-> st.failures ]

\* runSource after crawlSource resolved: failures = 0 and
\* nextRun = Date.now() + effectiveIntervalMs + jitter.
onSuccess(st, schedule, jitter, t) ==
    [ nextRun |-> t + schedule.effectiveIntervalMs + jitter,
      failures |-> 0 ]

\* runSource's catch block: failures += 1, nextRun = Date.now() + backoffMs
\* + jitter, overwritten by Date.now() + pauseMs at the failure limit.
onFailure(st, schedule, jitter, t) ==
    LET failures == st.failures + 1 IN
    [ nextRun |-> IF reachedFailureLimit(failures, schedule)
                  THEN t + pauseMs
                  ELSE t + backoffMs(schedule, failures) + jitter,
      failures |-> failures ]

----------------------------------------------------------------------------
(* Observers *)

NoObs ==
    [ lastStart |-> -1,     \* start time of the latest run
      prevStart |-> -1,     \* start time of the run before it
      prevEnded |-> TRUE,   \* that run had settled when the latest started
      streak    |-> 0,      \* failed crawls since the last success or boot
      pausedAt  |-> -1,     \* time of the failure that paused the source
      probes    |-> 0 ]     \* runs dispatched since that failure

NoneDone ==
    [ source |-> "", outcome |-> "none", jitter |-> 0,
      failuresBefore |-> 0, failuresAfter |-> 0,
      delay |-> 0,          \* nextRun - Date.now() as the crawl settled
      streak |-> 0 ]

NoneCrawl ==
    [ source |-> "", outcome |-> "none",
      rejected |-> FALSE,   \* the promise of crawlSource rejected
      log |-> << >> ]       \* what the call did, in order

\* a date of the query string: absent, not parseable, or a time
NoDate == [ kind |-> "absent", ms |-> 0 ]

\* no HTTP request has been made
NoRequest ==
    [ op |-> "none", source |-> "", from |-> NoDate, to |-> NoDate,
      at |-> "idle", askedAt |-> 0, lower |-> 0, upper |-> 0, status |-> 0,
      error |-> "", rows |-> << >>, asked |-> 0 ]

\* cleanupHistory has not run
NoSweep == [ at |-> "idle", cutoff |-> 0, started |-> 0, deleted |-> 0,
             failed |-> 0 ]

\* no browser has been launched
NoBrowser == [ instance |-> FALSE, launches |-> 0, closed |-> 0 ]

\* start() has not been called: this.timer and this.cleanupTimer are null
\* (0), no interval is active, every run writes to the state object that
\* this.state holds for its source, and no signal has called shutdown
NoLife ==
    [ hydrating |-> {}, timer |-> 0, cleanupTimer |-> 0, ticking |-> {},
      sweeping |-> {}, started |-> 0, stopped |-> FALSE, stops |-> 0,
      orphans |-> {}, shutdown |-> "idle" ]

activeRunsOf(rs, s) == { r \in rs : r.source = s }

----------------------------------------------------------------------------
(* Scheduler.tick *)

\* this.state.get(id)?.nextRun ?? 0
sortKey(st, s) == IF s \in DOMAIN st THEN st[s].nextRun ELSE 0

\* variant: no sort, the order of this.sources
sortsBeforeUnsorted(st, i, j) == i < j

\* sources[i] comes before sources[j] after the (stable) sort
sortsBefore(st, i, j) ==
    \/ sortKey(st, sources[i]) < sortKey(st, sources[j])
    \/ sortKey(st, sources[i]) = sortKey(st, sources[j]) /\ i < j

\* [...this.sources].sort((a, b) => nextRun(a) - nextRun(b))
sortedSources(st) ==
    [ k \in 1 .. Len(sources) |->
        sources[ CHOOSE i \in 1 .. Len(sources) :
                   Cardinality({ j \in 1 .. Len(sources) : sortsBefore(st, j, i) })
                       = k - 1 ] ]

\* runSource up to its first await (inside crawlSource): the slot is taken,
\* the jitter drawn and nextRun moved one interval ahead.
runSourceStart(acc, s, k) ==
    LET jitter == computeJitterMs(config[s].jitterMs, k)
        id     == CHOOSE i \in 1 .. Cardinality(acc.runs) + 1 :
                      /\ \A r \in acc.runs : r.id # i
                      /\ \A j \in 1 .. i - 1 : \E r \in acc.runs : r.id = j
    IN  [ acc EXCEPT
            !.inFlight   = @ + 1,
            !.dispatched = @ + 1,
            !.state      = [ @ EXCEPT ![s].nextRun =
                               now + config[s].effectiveIntervalMs + jitter ],
            !.runs       = @ \cup { [ id |-> id, source |-> s, jitter |-> jitter,
                                       phase |-> "crawl" ] },
            !.obs        = [ @ EXCEPT ![s] =
                               [ @ EXCEPT
                                   !.prevStart = acc.obs[s].lastStart,
                                   !.lastStart = now,
                                   !.prevEnded = activeRunsOf(acc.runs, s) = {},
                                   !.probes    = IF acc.obs[s].pausedAt >= 0
                                                 THEN @ + 1 ELSE @ ] ] ]

\* The for loop of tick over sortedSources, from position i.
RECURSIVE tickLoop(_, _, _, _)
tickLoop(sorted, i, acc, rnd) ==
    IF i > Len(sorted)
    THEN acc
    ELSE LET s == sorted[i] IN
         IF ~config[s].enabled
         THEN tickLoop(sorted, i + 1, acc, rnd)
         ELSE IF capReached(acc.inFlight, maxConcurrency)
         THEN acc
         ELSE IF s \notin DOMAIN acc.state \/ now < acc.state[s].nextRun
         THEN tickLoop(sorted, i + 1, acc, rnd)
         ELSE tickLoop(sorted, i + 1, runSourceStart(acc, s, rnd[s]), rnd)

tick(rnd) ==
    LET acc0 == [ inFlight |-> inFlight, dispatched |-> dispatched,
                  state |-> state, runs |-> runs, obs |-> obs ]
        acc  == tickLoop(sortedSources(state), 1, acc0, rnd)
    IN  /\ timer
        /\ acc.dispatched <= budget.runs
        /\ inFlight'    = acc.inFlight
        /\ dispatched'  = acc.dispatched
        /\ state'       = acc.state
        /\ runs'        = acc.runs
        /\ obs'         = acc.obs
        /\ UNCHANGED << now, budget, baseConfig, config, maxConcurrency, timer, life,
                        failureCount, advances, lastDone, crawlVars >>

----------------------------------------------------------------------------
(* Scheduler.start *)

\* lines 27-28 of start() in its k-th call: the two setInterval, whose
\* handles (named k) go to this.timer and this.cleanupTimer
setTimers(l, k) ==
    [ l EXCEPT !.timer = k, !.cleanupTimer = k,
               !.ticking = @ \cup { k }, !.sweeping = @ \cup { k } ]

\* the entry hydrateState sets for one source (its nextRun is the Date.now() of
\* the step that sets it)
hydrated(s) == [ nextRun |-> now, failures |-> failureCount[s] ]

\* start() is called: it returns at once when this.timer is set, otherwise
\* hydrateState sends its first findUnique.  The calls that are followed:
\* up to budget.starts calls of start(), then calls of stop().
startCalled ==
    /\ life.timer = 0
    /\ life.started < budget.starts
    /\ ~life.stopped
    /\ life' = [ life EXCEPT
                   !.started = @ + 1,
                   !.hydrating = @ \cup { [ call |-> life.started + 1,
                                            at |-> 1 ] } ]
    /\ UNCHANGED << now, budget, baseConfig, config, maxConcurrency, timer,
                    state, inFlight, runs, failureCount, dispatched, advances,
                    obs, lastDone, crawlVars >>

\* this.state.set puts a new object in the map: a run of the source that
\* has still to record its outcome holds the object it was dispatched with,
\* and what it writes there no longer reaches the map
orphaned(s) ==
    { r.id : r \in { x \in runs : x.source = s /\ x.phase = "crawl" } }

\* A findUnique of hydrateState resolved: the entry of the source is set and
\* the next findUnique is sent; after the last source start() sets its two
\* intervals, whatever this.timer holds by then.
hydrateResolves(h) ==
    LET s == sources[h.at]
        rest == life.hydrating \ { h }
        replaced == [ life EXCEPT !.orphans = @ \cup orphaned(s) ]
    IN
    /\ h \in life.hydrating
    /\ state' = [ x \in DOMAIN state \cup { s } |->
                    IF x = s THEN hydrated(s) ELSE state[x] ]
    /\ IF h.at < Len(sources)
       THEN /\ life' = [ replaced EXCEPT
                           !.hydrating = rest \cup { [ h EXCEPT !.at = @ + 1 ] } ]
            /\ UNCHANGED timer
       ELSE /\ life' = setTimers([ replaced EXCEPT !.hydrating = rest ], h.call)
            /\ timer' = TRUE
    /\ UNCHANGED << now, budget, baseConfig, config, maxConcurrency, inFlight,
                    runs, failureCount, dispatched, advances, obs, lastDone,
                    crawlVars >>

\* A findUnique of hydrateState threw: start() rejects and sets no interval.
hydrateThrows(h) ==
    /\ h \in life.hydrating
    /\ faults < budget.faults
    /\ faults' = faults + 1
    /\ life' = [ life EXCEPT !.hydrating = @ \ { h } ]
    /\ UNCHANGED << now, budget, baseConfig, config, maxConcurrency, timer,
                    state, inFlight, runs, failureCount, dispatched, advances,
                    obs, lastDone, pc, sourceStatus, sourceData, listeners,
                    conns, sent, restarts, lastCrawl, dataSeq, api, sweep,
                    browser,
                    wsServer >>

\* stop(): the intervals whose handles are in this.timer and
\* this.cleanupTimer are cleared and both fields set to null.
cleared(l) ==
    [ l EXCEPT !.ticking = @ \ { l.timer },
               !.sweeping = @ \ { l.cleanupTimer },
               !.timer = 0, !.cleanupTimer = 0,
               !.stopped = TRUE, !.stops = @ + 1 ]

stop ==
    /\ life.started > 0
    /\ life.stops < budget.stops
    /\ life' = cleared(life)
    /\ timer' = (cleared(life).ticking # {})
    /\ UNCHANGED << now, budget, baseConfig, config, maxConcurrency, state,
                    inFlight, runs, failureCount, dispatched, advances, obs,
                    lastDone, crawlVars >>

----------------------------------------------------------------------------
(* Scheduler.runSource after crawlSource settled *)

\* variant: one state object shared by all sources
settleShared(r, st, outcome) ==
    /\ runs' = (runs \ { r }) \cup { [ r EXCEPT !.phase = "final" ] }
    /\ IF r.id \in life.orphans
       THEN UNCHANGED << state, lastDone, obs >>
       ELSE /\ state' = [ s \in DOMAIN state |-> st ]
            /\ lastDone' =
                 [ source |-> r.source, outcome |-> outcome,
                   jitter |-> r.jitter,
                   failuresBefore |-> state[r.source].failures,
                   failuresAfter |-> st.failures, delay |-> st.nextRun - now,
                   streak |-> IF outcome = "success" THEN 0
                              ELSE obs[r.source].streak + 1 ]
            /\ obs' = [ obs EXCEPT ![r.source] =
                          IF outcome = "success"
                          THEN [ @ EXCEPT !.streak = 0, !.pausedAt = -1,
                                          !.probes = 0 ]
                          ELSE IF reachedFailureLimit(st.failures,
                                                      config[r.source])
                          THEN [ @ EXCEPT !.streak = @ + 1, !.pausedAt = now,
                                          !.probes = 0 ]
                          ELSE [ @ EXCEPT !.streak = @ + 1 ] ]

\* The try or the catch block of runSource writes to the state object the
\* run was dispatched with: the entry of the map, unless hydrateState has
\* replaced it since.
settle(r, st, outcome) ==
    /\ runs' = (runs \ { r }) \cup { [ r EXCEPT !.phase = "final" ] }
    /\ IF r.id \in life.orphans
       THEN UNCHANGED << state, lastDone, obs >>
       ELSE /\ state' = [ state EXCEPT ![r.source] = st ]
            /\ lastDone' =
                 [ source |-> r.source, outcome |-> outcome,
                   jitter |-> r.jitter,
                   failuresBefore |-> state[r.source].failures,
                   failuresAfter |-> st.failures, delay |-> st.nextRun - now,
                   streak |-> IF outcome = "success" THEN 0
                              ELSE obs[r.source].streak + 1 ]
            /\ obs' = [ obs EXCEPT ![r.source] =
                          IF outcome = "success"
                          THEN [ @ EXCEPT !.streak = 0, !.pausedAt = -1,
                                          !.probes = 0 ]
                          ELSE IF reachedFailureLimit(st.failures,
                                                      config[r.source])
                          THEN [ @ EXCEPT !.streak = @ + 1, !.pausedAt = now,
                                          !.probes = 0 ]
                          ELSE [ @ EXCEPT !.streak = @ + 1 ] ]

----------------------------------------------------------------------------
(* The clock *)

\* nothing is in flight: no run, no handler awaiting the Store or the browser
quiet ==
    /\ runs = {}
    /\ life.hydrating = {}
    /\ life.shutdown = "idle"
    /\ api.at \in { "idle", "done" }
    /\ sweep.at = "idle"
    /\ \A c \in DOMAIN conns : conns[c].at \in { "idle", "done" }

\* Time passes.  A run is bounded by the browser timeouts (navigationMs,
\* actionMs per selector) and a call of the Store takes far less than an
\* hour, so nothing is in flight across a step of an hour or more.
advance(d) ==
    /\ advances < budget.advances
    /\ d \in budget.steps
    /\ d > MIN_CRAWL_INTERVAL_MS => quiet
    /\ now' = now + d
    /\ advances' = advances + 1
    /\ UNCHANGED << budget, baseConfig, config, maxConcurrency, timer, life, state,
                    inFlight, runs, failureCount, dispatched, obs, lastDone,
                    crawlVars >>

----------------------------------------------------------------------------
(* The program *)

\* wsServer.ts holds two definitions of registerWsServer and index.ts calls
\* registerWsServer(api).  What serves the route is one of:
\*   "second"        the definition declared last, registerWsServer(fastify);
\*   "unconfigured"  the definition declared first, called as index.ts
\*                   calls it: prisma and configs are undefined;
\*   "configured"    the definition declared first, called with prisma and
\*                   the configs.
WsServers == { "second", "unconfigured", "configured" }

\* The state after bootstrap() constructed the Scheduler, for a loaded set
\* of configs and a Store left by earlier processes.  Without connections
\* the three are one behaviour.
Booted ==
    /\ now = 0
    /\ config = [ s \in SourceIds |-> resolveSourceConfig(baseConfig[s]) ]
    /\ timer = FALSE
    /\ state = [ s \in {} |-> 0 ]
    /\ inFlight = 0
    /\ runs = {}
    /\ dispatched = 0
    /\ advances = 0
    /\ obs = [ s \in SourceIds |-> NoObs ]
    /\ lastDone = NoneDone
    /\ pc = [ i \in {} |-> 0 ]
    /\ sourceStatus = << >>
    /\ sourceData = << >>
    /\ listeners = << >>
    /\ conns = [ c \in Connections |->
                  [ source |-> "", at |-> "idle", open |-> FALSE,
                    onClose |-> FALSE, cutoff |-> 0, broken |-> FALSE ] ]
    /\ sent = [ c \in Connections |-> << >> ]
    /\ faults = 0
    /\ restarts = 0
    /\ lastCrawl = NoneCrawl
    /\ dataSeq = 0
    /\ api = NoRequest
    /\ sweep = NoSweep
    /\ browser = NoBrowser
    /\ life = NoLife
    /\ wsServer \in IF budget.conns = 0 THEN { "second" } ELSE WsServers

\* Only the first source is allowed to be scraped.
soloConfigs(profiles) ==
    { c \in [ SourceIds -> Profiles ] :
        /\ c[sources[1]] \in profiles
        /\ c[sources[1]].allowedToScrape
        /\ \A i \in 2 .. Len(sources) : c[sources[i]] = ProfileForbidden }

\* Every pair of configurations without jitter, a fresh Store, a short
\* behaviour.
InitPair ==
    /\ baseConfig \in [ SourceIds -> PairProfiles ]
    /\ maxConcurrency \in ConcurrencyCaps
    /\ failureCount = [ s \in SourceIds |-> 0 ]
    /\ budget = [ runs |-> MaxRunsPair, advances |-> MaxAdvancesPair,
                  steps |-> TimeSteps,
                  faults |-> 0, restarts |-> 0, conns |-> 0,
                  breaks |-> 0, queries |-> 0, sweeps |-> 0,
                  offsets |-> {},
                  starts |-> 1, stops |-> 0, periodic |-> FALSE ]
    /\ Booted

\* One source allowed, a Store left by an earlier process, a longer
\* behaviour.
InitSolo ==
    /\ baseConfig \in soloConfigs(Profiles)
    /\ maxConcurrency = 2
    /\ failureCount \in { f \in [ SourceIds -> 0 .. MaxBootFailures ] :
                           \A i \in 2 .. Len(sources) : f[sources[i]] = 0 }
    /\ budget = [ runs |-> MaxRunsSolo, advances |-> MaxAdvancesSolo,
                  steps |-> TimeSteps,
                  faults |-> 0, restarts |-> 0, conns |-> 0,
                  breaks |-> 0, queries |-> 0, sweeps |-> 0,
                  offsets |-> {},
                  starts |-> 1, stops |-> 0, periodic |-> FALSE ]
    /\ Booted

\* One source that its first failure pauses, a fresh Store, a behaviour long
\* enough for a probe and the run after it.
InitProbe ==
    /\ baseConfig \in soloConfigs({ ProfileFragile })
    /\ maxConcurrency = 2
    /\ failureCount = [ s \in SourceIds |-> 0 ]
    /\ budget = [ runs |-> MaxRunsProbe, advances |-> MaxAdvancesProbe,
                  steps |-> TimeSteps,
                  faults |-> 0, restarts |-> 0, conns |-> 0,
                  breaks |-> 0, queries |-> 0, sweeps |-> 0,
                  offsets |-> {},
                  starts |-> 1, stops |-> 0, periodic |-> FALSE ]
    /\ Booted

\* One source of the default schedule, a fresh Store, a clock that moves a
\* day at a time, and the longest behaviour.
InitDaily ==
    /\ baseConfig \in soloConfigs({ ProfileDefault })
    /\ maxConcurrency = 2
    /\ failureCount = [ s \in SourceIds |-> 0 ]
    /\ budget = [ runs |-> MaxRunsDaily, advances |-> MaxAdvancesDaily,
                  steps |-> { pauseMs },
                  faults |-> 0, restarts |-> 0, conns |-> 0,
                  breaks |-> 0, queries |-> 0, sweeps |-> 0,
                  offsets |-> {},
                  starts |-> 1, stops |-> 0, periodic |-> FALSE ]
    /\ Booted

\* A slow source ahead of a fast one in this.sources, a Scheduler
\* constructed with one slot, a fresh Store of which one call may throw, a
\* clock that moves a day at a time.
InitQueue ==
    /\ baseConfig = [ s \in SourceIds |->
                        IF s = sources[1] THEN ProfileSlow ELSE ProfileDefault ]
    /\ maxConcurrency = 1
    /\ failureCount = [ s \in SourceIds |-> 0 ]
    /\ budget = [ runs |-> MaxRunsQueue, advances |-> MaxAdvancesQueue,
                  steps |-> { pauseMs },
                  faults |-> MaxFaults, restarts |-> 0, conns |-> 0,
                  breaks |-> 0, queries |-> 0, sweeps |-> 0,
                  offsets |-> {},
                  starts |-> 1, stops |-> 0, periodic |-> FALSE ]
    /\ Booted

\* The Scheduler as index.ts constructs it, with two slots: one source of
\* the default schedule, a fresh Store of which as many calls may throw as
\* there are slots, a clock that moves a day at a time.
InitWired ==
    /\ baseConfig \in soloConfigs({ ProfileDefault })
    /\ maxConcurrency = 2
    /\ failureCount = [ s \in SourceIds |-> 0 ]
    /\ budget = [ runs |-> MaxRunsWired, advances |-> MaxAdvancesWired,
                  steps |-> { pauseMs },
                  faults |-> MaxFaultsWired, restarts |-> 0, conns |-> 0,
                  breaks |-> 0, queries |-> 0, sweeps |-> 0,
                  offsets |-> {},
                  starts |-> 1, stops |-> 0, periodic |-> FALSE ]
    /\ Booted

\* One source of the default schedule, a Store of which one call may throw,
\* one run of cleanupHistory and one call of stop().
InitUpkeep ==
    /\ baseConfig \in soloConfigs({ ProfileDefault })
    /\ maxConcurrency = 2
    /\ failureCount = [ s \in SourceIds |-> 0 ]
    /\ budget = [ runs |-> MaxRunsUpkeep, advances |-> 0,
                  steps |-> { MIN_CRAWL_INTERVAL_MS },
                  faults |-> MaxFaults, restarts |-> 0, conns |-> 0,
                  breaks |-> 0, queries |-> 0, sweeps |-> MaxSweepsUpkeep,
                  offsets |-> {},
                  starts |-> 1, stops |-> MaxStops, periodic |-> FALSE ]
    /\ Booted

Init ==
    InitPair \/ InitSolo \/ InitProbe \/ InitDaily \/ InitQueue \/ InitWired
        \/ InitUpkeep

\* Math.random() is only called for a source that is dispatched (it is
\* enabled and due) and has jitterMs # 0.
randomDraws(s) ==
    IF /\ config[s].enabled
       /\ config[s].jitterMs # 0
       /\ s \in DOMAIN state
       /\ now >= state[s].nextRun
    THEN 0 .. RandDen - 1
    ELSE { 0 }

Tick ==
    \E rnd \in { f \in [ SourceIds -> 0 .. RandDen - 1 ] :
                    \A s \in SourceIds : f[s] \in randomDraws(s) } : tick(rnd)

Advance == \E d \in budget.steps : advance(d)

HydrateResolves == \E h \in life.hydrating : hydrateResolves(h)

HydrateThrows == \E h \in life.hydrating : hydrateThrows(h)

----------------------------------------------------------------------------
(* crawlSource, await by await: a runSource call is followed through every *)
(* await of crawlSource, with the rows of the Store, the listeners of       *)
(* eventBus and the WebSocket connections.                                  *)

\* crawlSource is suspended on its first await until a step moves it on;
\* context: browser.newContext() resolved ("context" is not null)
FirstAwait ==
    [ at |-> "findUnique", log |-> << >>, scrapedAt |-> 0, row |-> 0,
      outcome |-> "none", context |-> FALSE ]

crawlOf(r) == IF r.id \in DOMAIN pc THEN pc[r.id] ELSE FirstAwait

setPc(id, c) ==
    [ i \in DOMAIN pc \cup { id } |-> IF i = id THEN c ELSE pc[i] ]

dropPc(id) == [ i \in DOMAIN pc \ { id } |-> pc[i] ]

\* the awaits of crawlSource on the Store
beforeTry == { "findUnique", "createRunning", "updateRunning" }
insideTry == { "createData", "createSuccess", "updateSuccess" }
insideCatch == { "updateError", "createError" }

\* variant: the success StatusRecord is not written
nextAwaitSkipsSuccess(at, context) ==
    CASE at = "findUnique"    -> "createRunning"
      [] at = "createRunning" -> "updateRunning"
      [] at = "updateRunning" -> "extract"
      [] at = "createData"    -> "updateSuccess"
      [] at = "createSuccess" -> "updateSuccess"
      [] at = "updateSuccess" -> "closeContext"
      [] at = "updateError"   -> "createError"
      [] at = "createError"   -> IF context THEN "closeContext"
                                 ELSE "createScheduled"

\* the await that follows a Store call of crawlSource that resolved; after
\* the catch block the finally block awaits context.close() only when there
\* is a context, otherwise crawlSource rejects and runSource runs on to the
\* create of its own finally block
nextAwait(at, context) ==
    CASE at = "findUnique"    -> "createRunning"
      [] at = "createRunning" -> "updateRunning"
      [] at = "updateRunning" -> "extract"
      [] at = "createData"    -> "createSuccess"
      [] at = "createSuccess" -> "updateSuccess"
      [] at = "updateSuccess" -> "closeContext"
      [] at = "updateError"   -> "createError"
      [] at = "createError"   -> IF context THEN "closeContext"
                                 ELSE "createScheduled"

\* the channel of a source on eventBus
channel(s) == "source:" \o s

\* The listeners of an event whose handler sends for a payload of source s
\* on a socket whose send throws.
throwers(event, s) ==
    { i \in 1 .. Len(listeners) :
        /\ listeners[i].event = event
        /\ conns[listeners[i].conn].source = s
        /\ conns[listeners[i].conn].broken }

\* EventEmitter.emit calls the listeners one after the other with nothing
\* that catches: the i-th is reached when none before it threw, and sends
\* when its own send does not throw.
reached(event, s, i) == \A j \in throwers(event, s) : i < j

\* emit(event, payload) ends with an exception
throws(event, s) == throwers(event, s) # {}

\* What the handler of a connection sends for a payload.  The definition
\* declared first wraps it: { type: 'update', sourceId, payload }.  The one
\* declared last sends the payload as it is: { type: 'data', sourceId,
\* payload } or { type: 'error', sourceId, error }.
forwarded(event, s, payload) ==
    IF wsServer = "second"
    THEN [ type |-> payload.type, event |-> event, source |-> s,
           payload |-> payload ]
    ELSE [ type |-> "update", event |-> event, source |-> s,
           payload |-> payload ]

\* variant: the handler does not compare payload.sourceId with its id
emitUnfiltered(out, event, s, payload) ==
    [ c \in Connections |->
        IF \E i \in 1 .. Len(listeners) :
              /\ listeners[i].event = event /\ listeners[i].conn = c
              /\ reached(event, s, i)
        THEN Append(out[c], forwarded(event, s, payload))
        ELSE out[c] ]

\* eventBus.emit(event, payload) with payload.sourceId = s: the listeners of
\* the event run in the order registered.  The handler declared first sends
\* when the payload is of its source; the one declared last listens on the
\* channel of its id alone, where every payload is of that id, and sends
\* whatever arrives.
emit(out, event, s, payload) ==
    [ c \in Connections |->
        IF /\ \E i \in 1 .. Len(listeners) :
                 /\ listeners[i].event = event /\ listeners[i].conn = c
                 /\ reached(event, s, i)
           /\ conns[c].source = s
        THEN Append(out[c], forwarded(event, s, payload))
        ELSE out[c] ]

\* the two emits that follow a success: the second is not made when the
\* first throws
emitData(s, row) ==
    LET first == emit(sent, channel(s), s, [ type |-> "data", row |-> row ])
    IN  IF throws(channel(s), s) THEN first
        ELSE emit(first, "source_data:new", s, [ type |-> "new", row |-> row ])

\* one of the two throws
emitDataThrows(s) == throws(channel(s), s) \/ throws("source_data:new", s)

\* the emit on the channel of the source in the catch block
emitError(s) == emit(sent, channel(s), s, [ type |-> "error", row |-> 0 ])

statusRow(s, status) == [ source |-> s, status |-> status ]

\* getBrowser up to its await: chromium.launch is called when
\* browserInstance is null
launches(b) == ~b.instance

getBrowser(b) ==
    IF launches(b) THEN [ b EXCEPT !.launches = @ + 1 ] ELSE b

\* crawlSource suspended on "await getBrowser(...)" with a launch under way
awaitLaunch(c) == [ c EXCEPT !.at = "launch" ]

\* runSource after crawlSource settled: its try or its catch block, up to
\* the await of the finally block.
crawlSettles(r, c, outcome) ==
    /\ settle(r, IF outcome = "success"
                 THEN onSuccess(state[r.source], config[r.source], r.jitter, now)
                 ELSE onFailure(state[r.source], config[r.source], r.jitter, now),
              outcome)
    /\ pc' = setPc(r.id, [ c EXCEPT !.at = "createScheduled",
                                    !.outcome = outcome ])

\* A Store call of crawlSource resolved, and crawlSource ran on to its next
\* await.  After the last call of the catch block with no context to close,
\* crawlSource rejects at once and the catch block of runSource runs in the
\* same step.
crawlStoreResolves(r) ==
    LET c == crawlOf(r)
        s == r.source
        to(did) == setPc(r.id, [ c EXCEPT !.at = nextAwait(c.at, c.context),
                                          !.log = @ \o did ])
        caught == [ c EXCEPT !.log = @ \o IF throws(channel(s), s)
                                          THEN << "error" >>
                                          ELSE << "error", "publishError" >>,
                             !.outcome = "failure" ]
    IN
    /\ r \in runs /\ r.phase = "crawl"
    /\ c.at \in beforeTry \cup insideTry \cup insideCatch
    /\ CASE c.at = "findUnique" ->
              /\ pc' = to(<< >>)
              /\ UNCHANGED << sourceStatus, sourceData, failureCount, sent >>
         [] c.at = "createRunning" ->
              /\ sourceStatus' = Append(sourceStatus, statusRow(s, "RUNNING"))
              /\ pc' = to(<< "running" >>)
              /\ UNCHANGED << sourceData, failureCount, sent >>
         [] c.at = "updateRunning" ->
              /\ pc' = IF launches(browser) THEN setPc(r.id, awaitLaunch(c))
                       ELSE to(<< >>)
              /\ UNCHANGED << sourceStatus, sourceData, failureCount, sent >>
         [] c.at = "createData" ->
              /\ sourceData' = Append(sourceData,
                    [ id |-> dataSeq + 1, source |-> s,
                      scrapedAt |-> c.scrapedAt ])
              /\ pc' = setPc(r.id, [ c EXCEPT !.at = nextAwait(c.at, c.context),
                                              !.log = @ \o << "data" >>,
                                              !.row = dataSeq + 1 ])
              /\ UNCHANGED << sourceStatus, failureCount, sent >>
         [] c.at = "createSuccess" ->
              /\ sourceStatus' = Append(sourceStatus, statusRow(s, "SUCCESS"))
              /\ pc' = to(<< "success" >>)
              /\ UNCHANGED << sourceData, failureCount, sent >>
         [] c.at = "updateSuccess" ->
              /\ failureCount' = [ failureCount EXCEPT ![s] = 0 ]
              /\ sent' = emitData(s, c.row)
              /\ pc' = IF emitDataThrows(s)
                       THEN setPc(r.id, [ c EXCEPT !.at = "updateError",
                                                   !.log = @ \o << "reset" >>,
                                                   !.outcome = "failure" ])
                       ELSE setPc(r.id, [ c EXCEPT !.at = nextAwait(c.at, c.context),
                                              !.log = @ \o << "reset", "publish" >>,
                                              !.outcome = "success" ])
              /\ UNCHANGED << sourceStatus, sourceData >>
         [] c.at = "updateError" ->
              /\ failureCount' = [ failureCount EXCEPT ![s] = @ + 1 ]
              /\ pc' = to(<< "increment" >>)
              /\ UNCHANGED << sourceStatus, sourceData, sent >>
         [] c.at = "createError" ->
              /\ sourceStatus' = Append(sourceStatus, statusRow(s, "ERROR"))
              /\ sent' = emitError(s)
              /\ IF c.context
                 THEN /\ pc' = setPc(r.id,
                              [ caught EXCEPT !.at = nextAwait(c.at, c.context) ])
                      /\ UNCHANGED << state, runs, lastDone, obs >>
                 ELSE crawlSettles(r, caught, "failure")
              /\ UNCHANGED << sourceData, failureCount >>
    /\ c.at # "createError" => UNCHANGED << state, runs, lastDone, obs >>
    /\ dataSeq' = IF c.at = "createData" THEN dataSeq + 1 ELSE dataSeq
    /\ browser' = IF c.at = "updateRunning" THEN getBrowser(browser)
                  ELSE browser
    /\ UNCHANGED << now, baseConfig, config, maxConcurrency, timer, life,
                    inFlight, dispatched, advances, budget, listeners, conns,
                    faults, restarts, lastCrawl, api, sweep,
                    wsServer >>

\* The browser work and the parsing between "try {" and sourceData.create
\* went through: scrapedAt is taken and the DataPoint is sent to the Store.
\* It goes through on a browser that shutdownCrawler has closed as well,
\* when the page was loaded before: the selector loop catches what waitFor
\* throws and leaves the field null.
extractSucceeds(r) ==
    /\ r \in runs /\ r.phase = "crawl"
    /\ crawlOf(r).at = "extract"
    /\ pc' = setPc(r.id, [ crawlOf(r) EXCEPT !.at = "createData",
                                             !.scrapedAt = now,
                                             !.context = TRUE ])
    /\ UNCHANGED << now, baseConfig, config, maxConcurrency, timer, life, state,
                    inFlight, runs, failureCount, dispatched, advances, budget,
                    obs, lastDone, sourceStatus, sourceData, listeners, conns,
                    sent, faults, restarts, lastCrawl, dataSeq, api, sweep, browser,
                    wsServer >>

\* chromium.launch resolved: browserInstance is assigned and the browser
\* work starts.
launchResolves(r) ==
    /\ r \in runs /\ r.phase = "crawl"
    /\ crawlOf(r).at = "launch"
    /\ browser' = [ browser EXCEPT !.instance = TRUE ]
    /\ pc' = setPc(r.id, [ crawlOf(r) EXCEPT !.at = "extract" ])
    /\ UNCHANGED << now, baseConfig, config, maxConcurrency, timer, life,
                    state, inFlight, runs, failureCount, dispatched, advances,
                    budget, obs, lastDone, sourceStatus, sourceData, listeners,
                    conns, sent, faults, restarts, lastCrawl, dataSeq, api,
                    sweep,
                    wsServer >>

\* It threw: the catch block sends the failureCount increment to the Store.
\* made: the throw came after browser.newContext() resolved (newPage, the
\* navigation timeout, outputParser.parse, ...) and not before it
\* (chromium.launch, newContext).
extractFails(r, made) ==
    /\ r \in runs /\ r.phase = "crawl"
    /\ crawlOf(r).at \in { "launch", "extract" }
    /\ crawlOf(r).at = "launch" => ~made
    /\ pc' = setPc(r.id, [ crawlOf(r) EXCEPT !.at = "updateError",
                                             !.context = made ])
    /\ UNCHANGED << now, baseConfig, config, maxConcurrency, timer, life, state,
                    inFlight, runs, failureCount, dispatched, advances, budget,
                    obs, lastDone, sourceStatus, sourceData, listeners, conns,
                    sent, faults, restarts, lastCrawl, dataSeq, api, sweep, browser,
                    wsServer >>

\* A Store call of crawlSource threw.  Before the try block nothing catches
\* it and crawlSource rejects; inside it the catch block starts; inside the
\* catch block the finally block closes the context when there is one, and
\* crawlSource rejects at once when there is none.
crawlStoreThrows(r) ==
    LET c == crawlOf(r) IN
    /\ r \in runs /\ r.phase = "crawl"
    /\ c.at \in beforeTry \cup insideTry \cup insideCatch
    /\ faults < budget.faults
    /\ faults' = faults + 1
    /\ IF c.at \in beforeTry \/ (c.at \in insideCatch /\ ~c.context)
       THEN crawlSettles(r, c, "failure")
       ELSE /\ pc' = setPc(r.id, [ c EXCEPT
                       !.at = IF c.at \in insideTry THEN "updateError"
                              ELSE "closeContext",
                       !.outcome = "failure" ])
            /\ UNCHANGED << state, runs, lastDone, obs >>
    /\ UNCHANGED << now, baseConfig, config, maxConcurrency, timer, life, inFlight,
                    failureCount, dispatched, advances, budget, sourceStatus,
                    sourceData, listeners, conns, sent, restarts, lastCrawl,
                    dataSeq, api, sweep, browser,
                    wsServer >>

\* context.close() of the finally block resolved: crawlSource resolves after
\* a success and rejects ("throw error") after a failure.
crawlReturns(r) ==
    LET c == crawlOf(r) IN
    /\ r \in runs /\ r.phase = "crawl"
    /\ c.at = "closeContext"
    /\ crawlSettles(r, c, c.outcome)
    /\ UNCHANGED << now, baseConfig, config, maxConcurrency, timer, life, inFlight,
                    failureCount, dispatched, advances, budget, sourceStatus,
                    sourceData, listeners, conns, sent, faults, restarts,
                    lastCrawl, dataSeq, api, sweep, browser,
                    wsServer >>

\* what the observer keeps of a runSource call that ended
ended(r, did) ==
    [ source |-> r.source, outcome |-> crawlOf(r).outcome,
      rejected |-> crawlOf(r).outcome = "failure",
      log |-> crawlOf(r).log \o did ]

\* The create of the finally block of runSource resolved: the row is
\* written and the slot is given back.
scheduledWritten(r) ==
    /\ r \in runs /\ r.phase = "final"
    /\ runs' = runs \ { r }
    /\ inFlight' = inFlight - 1
    /\ life' = [ life EXCEPT !.orphans = @ \ { r.id } ]
    /\ UNCHANGED << now, budget, baseConfig, config, maxConcurrency, timer,
                    state, failureCount, dispatched, advances, obs, lastDone,
                    wsServer >>
    /\ sourceStatus' = Append(sourceStatus, statusRow(r.source, "IDLE"))
    /\ lastCrawl' = ended(r, << "scheduled" >>)
    /\ pc' = dropPc(r.id)
    /\ UNCHANGED << sourceData, listeners, conns, sent, faults, restarts,
                    dataSeq, api, sweep, browser >>

\* It threw: runSource rejects before "this.inFlight -= 1".
scheduledThrows(r) ==
    /\ r \in runs /\ r.phase = "final"
    /\ runs' = runs \ { r }
    /\ life' = [ life EXCEPT !.orphans = @ \ { r.id } ]
    /\ UNCHANGED << now, budget, baseConfig, config, maxConcurrency, timer,
                    state, inFlight, failureCount, dispatched, advances, obs,
                    lastDone,
                    wsServer >>
    /\ faults < budget.faults
    /\ faults' = faults + 1
    /\ lastCrawl' = ended(r, << >>)
    /\ pc' = dropPc(r.id)
    /\ UNCHANGED << sourceStatus, sourceData, listeners, conns, sent, restarts,
                    dataSeq, api, sweep, browser >>

----------------------------------------------------------------------------
(* The WebSocket route /ws/sources/:id (registerWsServer) *)

message(type, event, s, payload) ==
    [ type |-> type, event |-> event, source |-> s, payload |-> payload ]

NoPayload == [ type |-> "", row |-> 0 ]

\* variant: where: { sourceId }
rowsOfSource(s, cutoff) ==
    { i \in 1 .. Len(sourceData) : sourceData[i].source = s }

\* where: { sourceId, scrapedAt: { gte: cutoff } }, as positions in the table
rowsInWindow(s, cutoff) ==
    { i \in 1 .. Len(sourceData) :
        /\ sourceData[i].source = s
        /\ sourceData[i].scrapedAt >= cutoff }

\* orderBy scrapedAt desc: the candidates of findFirst
latestRows(s, cutoff) ==
    { i \in rowsInWindow(s, cutoff) :
        \A j \in rowsInWindow(s, cutoff) :
            sourceData[j].scrapedAt <= sourceData[i].scrapedAt }

\* an id that no config and no Source row has
unknownId == "x"

\* the ids a client may ask for
RequestIds == SourceIds \cup { unknownId }

\* !sourceConfig || !source || !source.enabled: upsertSources wrote a Source
\* row for every config, with enabled as resolved
refused(s) == s \notin SourceIds \/ ~config[s].enabled

\* A client opens connection c: the connections are taken in their order,
\* as many as the budget allows.
opens(c) ==
    /\ conns[c].at = "idle"
    /\ Cardinality({ d \in Connections : conns[d].at # "idle" }) < budget.conns
    /\ \A i \in 1 .. Len(connections) :
          connections[i] = c =>
              \A j \in 1 .. i - 1 : conns[connections[j]].at # "idle"

\* The definition declared first, with prisma and the configs: the handler
\* starts for id s and awaits prisma.source.findUnique.
connect(c, s) ==
    /\ wsServer = "configured"
    /\ opens(c)
    /\ conns' = [ conns EXCEPT ![c] =
                    [ source |-> s, at |-> "findUnique", open |-> TRUE,
                      onClose |-> FALSE, cutoff |-> 0, broken |-> FALSE ] ]
    /\ UNCHANGED << now, baseConfig, config, maxConcurrency, timer, life, state,
                    inFlight, runs, failureCount, dispatched, advances, budget,
                    obs, lastDone, pc, sourceStatus, sourceData, listeners,
                    sent, faults,
                    restarts, lastCrawl, dataSeq, api, sweep, browser,
                    wsServer >>

\* The definition declared first, called with fastify alone: configs is
\* undefined, configs.find throws TypeError before any await and the handler
\* ends there.  Nothing is registered, nothing is sent, the socket stays
\* open.
connectUnconfigured(c, s) ==
    /\ wsServer = "unconfigured"
    /\ opens(c)
    /\ conns' = [ conns EXCEPT ![c] =
                    [ source |-> s, at |-> "done", open |-> TRUE,
                      onClose |-> FALSE, cutoff |-> 0, broken |-> FALSE ] ]
    /\ UNCHANGED << now, baseConfig, config, maxConcurrency, timer, life, state,
                    inFlight, runs, failureCount, dispatched, advances, budget,
                    obs, lastDone, pc, sourceStatus, sourceData, listeners,
                    sent, faults,
                    restarts, lastCrawl, dataSeq, api, sweep, browser,
                    wsServer >>

\* The definition declared last: the handler awaits nothing and looks
\* nothing up.  For any id it registers its handler on the channel of the id,
\* sets the close listener and sends "connected".
connectSecond(c, s) ==
    /\ wsServer = "second"
    /\ opens(c)
    /\ listeners' = Append(listeners, [ event |-> channel(s), conn |-> c ])
    /\ sent' = [ sent EXCEPT ![c] =
                   Append(@, message("connected", "", s, NoPayload)) ]
    /\ conns' = [ conns EXCEPT ![c] =
                    [ source |-> s, at |-> "done", open |-> TRUE,
                      onClose |-> TRUE, cutoff |-> 0, broken |-> FALSE ] ]
    /\ UNCHANGED << now, baseConfig, config, maxConcurrency, timer, life, state,
                    inFlight, runs, failureCount, dispatched, advances, budget,
                    obs, lastDone, pc, sourceStatus, sourceData, faults,
                    restarts, lastCrawl, dataSeq, api, sweep, browser,
                    wsServer >>

\* findUnique resolved.  An unknown or disabled source is refused: the error
\* is sent and the socket closed.  Otherwise the handler is registered on
\* both events, the close listener is set, "connected" is sent and the
\* latest row is asked for.  A send that throws ends the handler there.
connectFound(c) ==
    LET s == conns[c].source IN
    /\ conns[c].at = "findUnique"
    /\ IF refused(s)
       THEN /\ sent' = IF conns[c].broken THEN sent
                       ELSE [ sent EXCEPT ![c] =
                               Append(@, message("error", "", s, NoPayload)) ]
            /\ conns' = [ conns EXCEPT
                            ![c].at = "done",
                            ![c].open = conns[c].open /\ conns[c].broken ]
            /\ UNCHANGED listeners
       ELSE /\ listeners' = listeners \o
                   << [ event |-> "source_data:new", conn |-> c ],
                      [ event |-> channel(s), conn |-> c ] >>
            /\ sent' = IF conns[c].broken THEN sent
                       ELSE [ sent EXCEPT ![c] =
                               Append(@, message("connected", "", s, NoPayload)) ]
            /\ conns' = [ conns EXCEPT
                            ![c].at = IF conns[c].broken THEN "done"
                                      ELSE "findFirst",
                            ![c].onClose = TRUE,
                            ![c].cutoff = now - RETENTION_WINDOW_MS ]
    /\ UNCHANGED << now, baseConfig, config, maxConcurrency, timer, life, state,
                    inFlight, runs, failureCount, dispatched, advances, budget,
                    obs, lastDone, pc, sourceStatus, sourceData, faults,
                    restarts, lastCrawl, dataSeq, api, sweep, browser,
                    wsServer >>

\* sourceData.findFirst resolved: "latest" is sent when a row was found.
connectLatest(c) ==
    LET s == conns[c].source
        found == latestRows(s, conns[c].cutoff)
    IN
    /\ conns[c].at = "findFirst"
    /\ conns' = [ conns EXCEPT ![c].at = "done" ]
    /\ IF found = {} \/ conns[c].broken
       THEN UNCHANGED sent
       ELSE \E i \in found :
               sent' = [ sent EXCEPT ![c] =
                           Append(@, message("latest", "", s,
                                     [ type |-> "row",
                                       row |-> sourceData[i].id ])) ]
    /\ UNCHANGED << now, baseConfig, config, maxConcurrency, timer, life, state,
                    inFlight, runs, failureCount, dispatched, advances, budget,
                    obs, lastDone, pc, sourceStatus, sourceData, listeners,
                    faults, restarts, lastCrawl, dataSeq, api, sweep, browser,
                    wsServer >>

\* The transport of an open connection fails: from here on
\* connection.socket.send throws.
transportFails(c) ==
    /\ conns[c].at # "idle" /\ conns[c].open /\ ~conns[c].broken
    /\ Cardinality({ d \in Connections : conns[d].broken }) < budget.breaks
    /\ conns' = [ conns EXCEPT ![c].broken = TRUE ]
    /\ UNCHANGED << now, baseConfig, config, maxConcurrency, timer, life, state,
                    inFlight, runs, failureCount, dispatched, advances, budget,
                    obs, lastDone, pc, sourceStatus, sourceData, listeners,
                    sent, faults, restarts, lastCrawl, dataSeq, api, sweep, browser,
                    wsServer >>

without(ls, c) == SelectSeq(ls, LAMBDA l : l.conn # c)

\* The socket closes: the close listener, if it is set by then, takes the
\* handler off the events it was registered on.
close(c) ==
    /\ conns[c].open
    /\ conns' = [ conns EXCEPT ![c].open = FALSE ]
    /\ listeners' = IF conns[c].onClose THEN without(listeners, c)
                    ELSE listeners
    /\ UNCHANGED << now, baseConfig, config, maxConcurrency, timer, life, state,
                    inFlight, runs, failureCount, dispatched, advances, budget,
                    obs, lastDone, pc, sourceStatus, sourceData, sent, faults,
                    restarts, lastCrawl, dataSeq, api, sweep, browser,
                    wsServer >>

----------------------------------------------------------------------------
(* The HTTP routes /api/sources/:id/latest and /api/sources/:id/history *)

\* a date string that new Date() cannot parse
InvalidDate == [ kind |-> "invalid", ms |-> 0 ]

\* a date string that new Date() parses to the time ms
dateAt(ms) == [ kind |-> "date", ms |-> ms ]

\* request.query.from ? new Date(request.query.from) : fallback
queryDate(d, fallback) == IF d.kind = "absent" THEN dateAt(fallback) ELSE d

\* variant: only queryFrom is tested
invalidDatesFromOnly(from, to) == from.kind = "invalid"

\* Number.isNaN(queryFrom.getTime()) || Number.isNaN(queryTo.getTime())
invalidDates(from, to) == from.kind = "invalid" \/ to.kind = "invalid"

\* variant: a from before the window is kept
lowerBoundUnclamped(queryFrom, defaultFrom) == queryFrom

\* queryFrom < defaultFrom ? defaultFrom : queryFrom
lowerBound(queryFrom, defaultFrom) ==
    IF queryFrom < defaultFrom THEN defaultFrom ELSE queryFrom

\* queryTo > now ? now : queryTo
upperBound(queryTo, t) == IF queryTo > t THEN t ELSE queryTo

\* lowerBound > upperBound, of the bounds after clamping
emptyRange(queryFrom, queryTo, defaultFrom, t) ==
    lowerBound(queryFrom, defaultFrom) > upperBound(queryTo, t)

\* where: { sourceId, scrapedAt: { gte: lower, lte: upper } }
rowsBetween(s, lower, upper) ==
    { i \in 1 .. Len(sourceData) :
        /\ sourceData[i].source = s
        /\ sourceData[i].scrapedAt >= lower
        /\ sourceData[i].scrapedAt <= upper }

\* orderBy: { scrapedAt: 'asc' }, of the rows at the positions in S
RECURSIVE ascending(_)
ascending(S) ==
    IF S = {} THEN << >>
    ELSE LET i == CHOOSE k \in S :
                     \A j \in S :
                        \/ sourceData[k].scrapedAt < sourceData[j].scrapedAt
                        \/ /\ sourceData[k].scrapedAt = sourceData[j].scrapedAt
                           /\ k <= j
         IN  << sourceData[i] >> \o ascending(S \ { i })

\* reply.code(status) with a message, and no rows
refusal(status, error) ==
    [ api EXCEPT !.at = "done", !.status = status, !.error = error ]

\* A client asks for the latest row or for the history of id s: the handler
\* starts and awaits prisma.source.findUnique.
request(op, s, from, to) ==
    /\ api.at \in { "idle", "done" }
    /\ api.asked < budget.queries
    /\ api' = [ NoRequest EXCEPT !.op = op, !.source = s, !.from = from,
                                 !.to = to, !.at = "findUnique",
                                 !.asked = api.asked + 1 ]
    /\ UNCHANGED << now, baseConfig, config, maxConcurrency, timer, life, state,
                    inFlight, runs, failureCount, dispatched, advances, budget,
                    obs, lastDone, pc, sourceStatus, sourceData, listeners,
                    conns, sent, faults, restarts, lastCrawl, dataSeq, sweep, browser,
                    wsServer >>

\* findUnique resolved: 404 for an unknown or disabled source; otherwise the
\* window is taken from Date.now(), the dates of a history request are
\* parsed, clamped and compared, and the rows are asked for.
apiFound ==
    LET s == api.source
        defaultFrom == now - RETENTION_WINDOW_MS
        queryFrom == queryDate(api.from, defaultFrom)
        queryTo == queryDate(api.to, now)
    IN
    /\ api.at = "findUnique"
    /\ api' =
         IF s \notin SourceIds \/ ~config[s].enabled
         THEN refusal(404, "Source not found or disabled")
         ELSE IF api.op = "latest"
         THEN [ api EXCEPT !.at = "findFirst", !.askedAt = now,
                           !.lower = defaultFrom, !.upper = now ]
         ELSE IF invalidDates(queryFrom, queryTo)
         THEN [ refusal(400, "Invalid date range") EXCEPT !.askedAt = now ]
         ELSE IF emptyRange(queryFrom.ms, queryTo.ms, defaultFrom, now)
         THEN [ refusal(400, "from must be before to") EXCEPT !.askedAt = now ]
         ELSE [ api EXCEPT !.at = "findMany", !.askedAt = now,
                           !.lower = lowerBound(queryFrom.ms, defaultFrom),
                           !.upper = upperBound(queryTo.ms, now) ]
    /\ UNCHANGED << now, baseConfig, config, maxConcurrency, timer, life, state,
                    inFlight, runs, failureCount, dispatched, advances, budget,
                    obs, lastDone, pc, sourceStatus, sourceData, listeners,
                    conns, sent, faults, restarts, lastCrawl, dataSeq, sweep, browser,
                    wsServer >>

\* findFirst or findMany resolved: 404 when it found nothing, otherwise the
\* row, or the rows in ascending order of scrapedAt, are returned.
apiAnswers ==
    LET s == api.source
        found == latestRows(s, api.lower)
        range == rowsBetween(s, api.lower, api.upper)
    IN
    /\ api.at \in { "findFirst", "findMany" }
    /\ IF api.at = "findFirst"
       THEN IF found = {}
            THEN api' = refusal(404, "No data found for source")
            ELSE \E i \in found :
                    api' = [ api EXCEPT !.at = "done", !.status = 200,
                                        !.rows = << sourceData[i] >> ]
       ELSE IF range = {}
            THEN api' = refusal(404, "No history found for source")
            ELSE api' = [ api EXCEPT !.at = "done", !.status = 200,
                                     !.rows = ascending(range) ]
    /\ UNCHANGED << now, baseConfig, config, maxConcurrency, timer, life, state,
                    inFlight, runs, failureCount, dispatched, advances, budget,
                    obs, lastDone, pc, sourceStatus, sourceData, listeners,
                    conns, sent, faults, restarts, lastCrawl, dataSeq, sweep, browser,
                    wsServer >>

\* POST /api/preview with the config of source s as its body.  In
\* production the answer is 403, and 400 when sourceSchema refuses the body.
\* Otherwise the body is resolved and the handler awaits chromium.launch, a
\* browser of its own.  allowedToScrape and enabled of the body are not
\* looked at.
preview(s, valid, production) ==
    LET asked == [ NoRequest EXCEPT !.op = "preview", !.source = s,
                                    !.askedAt = now,
                                    !.asked = api.asked + 1 ]
    IN
    /\ api.at \in { "idle", "done" }
    /\ api.asked < budget.queries
    /\ api' = IF production
              THEN [ asked EXCEPT
                       !.at = "done", !.status = 403,
                       !.error = "Preview endpoint disabled in production" ]
              ELSE IF ~valid
              THEN [ asked EXCEPT !.at = "done", !.status = 400,
                                  !.error = "formatZodError" ]
              ELSE [ asked EXCEPT !.at = "launch" ]
    /\ UNCHANGED << now, baseConfig, config, maxConcurrency, timer, life, state,
                    inFlight, runs, failureCount, dispatched, advances, budget,
                    obs, lastDone, pc, sourceStatus, sourceData, listeners,
                    conns, sent, faults, restarts, lastCrawl, dataSeq, sweep,
                    browser, wsServer >>

\* chromium.launch, newContext and newPage resolved and page.goto(config.url)
\* is called; or one of them threw, outside the try block, and the handler
\* rejects.
previewLaunched(ok) ==
    /\ api.op = "preview" /\ api.at = "launch"
    /\ api' = IF ok THEN [ api EXCEPT !.at = "goto" ]
              ELSE refusal(500, "Internal Server Error")
    /\ UNCHANGED << now, baseConfig, config, maxConcurrency, timer, life, state,
                    inFlight, runs, failureCount, dispatched, advances, budget,
                    obs, lastDone, pc, sourceStatus, sourceData, listeners,
                    conns, sent, faults, restarts, lastCrawl, dataSeq, sweep,
                    browser, wsServer >>

\* page.goto and the selector loop went through: the page of the source was
\* loaded and its values are the answer.  Or goto threw: the answer is 500.
\* The finally block awaits context.close() and browser.close().
previewLoaded(ok) ==
    /\ api.op = "preview" /\ api.at = "goto"
    /\ api' = [ api EXCEPT !.at = "close",
                           !.status = IF ok THEN 200 ELSE 500,
                           !.error = IF ok THEN "" ELSE "Preview failed" ]
    /\ UNCHANGED << now, baseConfig, config, maxConcurrency, timer, life, state,
                    inFlight, runs, failureCount, dispatched, advances, budget,
                    obs, lastDone, pc, sourceStatus, sourceData, listeners,
                    conns, sent, faults, restarts, lastCrawl, dataSeq, sweep,
                    browser, wsServer >>

\* context.close() and browser.close() resolved: the answer is sent.
previewClosed ==
    /\ api.op = "preview" /\ api.at = "close"
    /\ api' = [ api EXCEPT !.at = "done" ]
    /\ UNCHANGED << now, baseConfig, config, maxConcurrency, timer, life, state,
                    inFlight, runs, failureCount, dispatched, advances, budget,
                    obs, lastDone, pc, sourceStatus, sourceData, listeners,
                    conns, sent, faults, restarts, lastCrawl, dataSeq, sweep,
                    browser, wsServer >>

----------------------------------------------------------------------------
(* Scheduler.cleanupHistory *)

\* variant: deleteMany({ where: { scrapedAt: { lte: cutoff } } })
deleteManyThrough(rows, cutoff) ==
    SelectSeq(rows, LAMBDA row : ~(row.scrapedAt <= cutoff))

\* deleteMany({ where: { scrapedAt: { lt: cutoff } } }): the rows that stay
deleteMany(rows, cutoff) ==
    SelectSeq(rows, LAMBDA row : ~(row.scrapedAt < cutoff))

\* The cleanup timer set by start() fires: the cutoff is taken from
\* Date.now() and deleteMany is sent to the Store.
cleanupStarts ==
    /\ timer
    /\ sweep.at = "idle"
    /\ sweep.started < budget.sweeps \/ budget.periodic
    /\ sweep' = [ sweep EXCEPT !.at = "deleteMany",
                               !.cutoff = now - RETENTION_WINDOW_MS,
                               !.started = IF @ < budget.sweeps THEN @ + 1
                                           ELSE @ ]
    /\ UNCHANGED << now, baseConfig, config, maxConcurrency, timer, life, state,
                    inFlight, runs, failureCount, dispatched, advances, budget,
                    obs, lastDone, pc, sourceStatus, sourceData, listeners,
                    conns, sent, faults, restarts, lastCrawl, dataSeq, api, browser,
                    wsServer >>

\* deleteMany resolved.
cleanupResolves ==
    /\ sweep.at = "deleteMany"
    /\ sourceData' = deleteMany(sourceData, sweep.cutoff)
    /\ sweep' = [ sweep EXCEPT
                    !.at = "idle",
                    !.deleted = @ + Len(sourceData) - Len(sourceData') ]
    /\ UNCHANGED << now, baseConfig, config, maxConcurrency, timer, life, state,
                    inFlight, runs, failureCount, dispatched, advances, budget,
                    obs, lastDone, pc, sourceStatus, listeners, conns, sent,
                    faults, restarts, lastCrawl, dataSeq, api, browser,
                    wsServer >>

\* variant: the exception of deleteMany ends the scheduler
cleanupThrowsFatal ==
    /\ sweep.at = "deleteMany"
    /\ faults < budget.faults
    /\ faults' = faults + 1
    /\ sweep' = [ sweep EXCEPT !.at = "idle", !.failed = @ + 1 ]
    /\ timer' = FALSE
    /\ life' = [ life EXCEPT !.ticking = {}, !.sweeping = {} ]
    /\ UNCHANGED << now, baseConfig, config, maxConcurrency, state,
                    inFlight, runs, failureCount, dispatched, advances, budget,
                    obs, lastDone, pc, sourceStatus, sourceData, listeners,
                    conns, sent, restarts, lastCrawl, dataSeq, api, browser,
                    wsServer >>

\* deleteMany threw: the catch block logs it and cleanupHistory returns.
cleanupThrows ==
    /\ sweep.at = "deleteMany"
    /\ faults < budget.faults
    /\ faults' = faults + 1
    /\ sweep' = [ sweep EXCEPT !.at = "idle", !.failed = @ + 1 ]
    /\ UNCHANGED << now, baseConfig, config, maxConcurrency, timer, life, state,
                    inFlight, runs, failureCount, dispatched, advances, budget,
                    obs, lastDone, pc, sourceStatus, sourceData, listeners,
                    conns, sent, restarts, lastCrawl, dataSeq, api, browser,
                    wsServer >>

----------------------------------------------------------------------------
(* The process *)

\* The process is gone and bootstrap() runs again: what was in memory is
\* gone, the sockets are closed, the Store is what it was.
rebooted ==
    /\ restarts' = restarts + 1
    /\ timer' = FALSE
    /\ state' = [ s \in {} |-> 0 ]
    /\ inFlight' = 0
    /\ runs' = {}
    /\ pc' = [ i \in {} |-> 0 ]
    /\ listeners' = << >>
    /\ conns' = [ c \in Connections |->
                    IF conns[c].at = "idle" THEN conns[c]
                    ELSE [ conns[c] EXCEPT !.at = "done", !.open = FALSE,
                                           !.onClose = FALSE ] ]
    /\ api' = IF api.at \in { "idle", "done" } THEN api
              ELSE [ api EXCEPT !.at = "done" ]
    /\ sweep' = [ sweep EXCEPT !.at = "idle" ]
    /\ browser' = NoBrowser
    /\ life' = NoLife
    /\ UNCHANGED << now, baseConfig, config, maxConcurrency, failureCount,
                    dispatched, advances, budget, obs, lastDone, sourceStatus,
                    sourceData, sent, faults, lastCrawl, dataSeq, wsServer >>

\* The process is killed, or crashes, and is started again.  The kills that
\* are followed are those of a process that is not shutting down.
restart ==
    /\ restarts < budget.restarts
    /\ life.shutdown = "idle"
    /\ rebooted

\* SIGINT or SIGTERM: shutdown runs scheduler.stop() and calls
\* shutdownCrawler, which awaits browserInstance.close() when there is a
\* browser and returns at once when there is none; shutdown then awaits
\* prisma.$disconnect().  The runs in flight go on.  One signal is followed.
shutdown ==
    /\ restarts < budget.restarts
    /\ life.started > 0
    /\ life.shutdown = "idle"
    /\ life' = [ cleared(life) EXCEPT
                   !.shutdown = IF browser.instance THEN "close"
                                ELSE "disconnect" ]
    /\ timer' = (cleared(life).ticking # {})
    /\ UNCHANGED << now, budget, baseConfig, config, maxConcurrency, state,
                    inFlight, runs, failureCount, dispatched, advances, obs,
                    lastDone, crawlVars >>

\* browserInstance.close() resolved: shutdownCrawler sets browserInstance to
\* null and returns, and shutdown awaits prisma.$disconnect().  The runs at
\* their browser work go on: one whose page is loaded, or whose browser is
\* one launched earlier, may still succeed, another fails.
shutdownCrawler ==
    /\ life.shutdown = "close"
    /\ life' = [ life EXCEPT !.shutdown = "disconnect" ]
    /\ browser' = [ browser EXCEPT !.instance = FALSE,
                                    !.closed = browser.launches ]
    /\ UNCHANGED << now, budget, baseConfig, config, maxConcurrency, timer,
                    state, inFlight, runs, failureCount, dispatched, advances,
                    obs, lastDone, pc, sourceStatus, sourceData, listeners,
                    conns, sent, faults, restarts, lastCrawl, dataSeq, api,
                    sweep, wsServer >>

\* prisma.$disconnect() resolved: process.exit(0), and the process is
\* started again.
exit ==
    /\ life.shutdown = "disconnect"
    /\ rebooted

\* The first source may be crawled, the others may not.
crawlConfigs(profile, others) ==
    { c \in [ SourceIds -> { profile } \cup others ] :
        /\ c[sources[1]] = profile
        /\ \A i \in 2 .. Len(sources) : c[sources[i]] \in others }

\* A fresh Store whose calls may throw, no connection.
InitFaults ==
    /\ baseConfig \in crawlConfigs(ProfileDefault,
                                    { ProfileForbidden, ProfileDisabled })
    /\ maxConcurrency = 2
    /\ failureCount = [ s \in SourceIds |-> 0 ]
    /\ budget = [ runs |-> MaxRunsCrawl, advances |-> MaxAdvancesCrawl,
                  steps |-> { MIN_CRAWL_INTERVAL_MS },
                  faults |-> MaxFaults, restarts |-> 0, conns |-> 0,
                  breaks |-> 0, queries |-> 0, sweeps |-> 0,
                  offsets |-> {},
                  starts |-> 1, stops |-> 0, periodic |-> FALSE ]
    /\ Booted

\* A Store that answers, one run, and two connections.
InitSubscribers ==
    /\ baseConfig \in crawlConfigs(ProfileDefault, { ProfileForbidden })
    /\ maxConcurrency = 2
    /\ failureCount = [ s \in SourceIds |-> 0 ]
    /\ budget = [ runs |-> MaxRunsSubscribers, advances |-> 0,
                  steps |-> { MIN_CRAWL_INTERVAL_MS },
                  faults |-> 0, restarts |-> 0,
                  conns |-> 2,
                  breaks |-> 0, queries |-> 0, sweeps |-> 0,
                  offsets |-> {},
                  starts |-> 1, stops |-> 0, periodic |-> FALSE ]
    /\ Booted

\* A Store that answers, two slots, and one connection.
InitOverlap ==
    /\ baseConfig \in crawlConfigs(ProfileDefault, { ProfileForbidden })
    /\ maxConcurrency = 2
    /\ failureCount = [ s \in SourceIds |-> 0 ]
    /\ budget = [ runs |-> MaxRunsCrawl, advances |-> MaxAdvancesCrawl,
                  steps |-> { MIN_CRAWL_INTERVAL_MS },
                  faults |-> 0, restarts |-> 0, conns |-> 1,
                  breaks |-> 0, queries |-> 0, sweeps |-> 0,
                  offsets |-> {},
                  starts |-> 1, stops |-> 0, periodic |-> FALSE ]
    /\ Booted

\* A Store that answers, one run, and two connections of which the
\* transport of one fails.
InitTransport ==
    /\ baseConfig \in crawlConfigs(ProfileDefault, { ProfileForbidden })
    /\ maxConcurrency = 2
    /\ failureCount = [ s \in SourceIds |-> 0 ]
    /\ budget = [ runs |-> MaxRunsTransport, advances |-> 0,
                  steps |-> { MIN_CRAWL_INTERVAL_MS },
                  faults |-> 0, restarts |-> 0,
                  conns |-> 2,
                  breaks |-> MaxBreaks, queries |-> 0, sweeps |-> 0,
                  offsets |-> {},
                  starts |-> 1, stops |-> 0, periodic |-> FALSE ]
    /\ Booted

\* A Store that answers, one run, and three connections of which the
\* transport of one fails, under the wirings whose handler awaits nothing.
InitTrio ==
    /\ baseConfig \in crawlConfigs(ProfileDefault, { ProfileForbidden })
    /\ maxConcurrency = 2
    /\ failureCount = [ s \in SourceIds |-> 0 ]
    /\ budget = [ runs |-> MaxRunsTransport, advances |-> 0,
                  steps |-> { MIN_CRAWL_INTERVAL_MS },
                  faults |-> 0, restarts |-> 0,
                  conns |-> 3,
                  breaks |-> MaxBreaks, queries |-> 0, sweeps |-> 0,
                  offsets |-> {},
                  starts |-> 1, stops |-> 0, periodic |-> FALSE ]
    /\ Booted
    /\ wsServer \in { "second", "unconfigured" }

\* One run, and one request to POST /api/preview with the config of a source
\* that may be crawled or of one that may not.
InitPreview ==
    /\ baseConfig \in crawlConfigs(ProfileDefault,
                                    { ProfileForbidden, ProfileDisabled })
    /\ maxConcurrency = 2
    /\ failureCount = [ s \in SourceIds |-> 0 ]
    /\ budget = [ runs |-> MaxRunsPreview, advances |-> 0,
                  steps |-> { MIN_CRAWL_INTERVAL_MS },
                  faults |-> 0, restarts |-> 0, conns |-> 0,
                  breaks |-> 0, queries |-> MaxPreviews, sweeps |-> 0,
                  offsets |-> {},
                  starts |-> 1, stops |-> 0, periodic |-> FALSE ]
    /\ Booted

\* One run, one connection, and a process that is sent a signal or killed.
InitShutdown ==
    /\ baseConfig \in crawlConfigs(ProfileDefault, { ProfileForbidden })
    /\ maxConcurrency = 2
    /\ failureCount = [ s \in SourceIds |-> 0 ]
    /\ budget = [ runs |-> MaxRunsShutdown, advances |-> 0,
                  steps |-> { MIN_CRAWL_INTERVAL_MS },
                  faults |-> 0, restarts |-> MaxRestarts, conns |-> 1,
                  breaks |-> 0, queries |-> 0, sweeps |-> 0,
                  offsets |-> {},
                  starts |-> 1, stops |-> 0, periodic |-> FALSE ]
    /\ Booted

\* A source that its first failure pauses, and a process that restarts.
InitRestart ==
    /\ baseConfig \in crawlConfigs(ProfileFragile, { ProfileForbidden })
    /\ maxConcurrency = 2
    /\ failureCount = [ s \in SourceIds |-> 0 ]
    /\ budget = [ runs |-> MaxRunsCrawl, advances |-> MaxAdvancesCrawl,
                  steps |-> { pauseMs },
                  faults |-> 0, restarts |-> MaxRestarts, conns |-> 0,
                  breaks |-> 0, queries |-> 0, sweeps |-> 0,
                  offsets |-> {},
                  starts |-> 1, stops |-> 0, periodic |-> FALSE ]
    /\ Booted

\* Two sources that are crawled side by side, a Store that answers, and one
\* connection.
InitNeighbours ==
    /\ baseConfig = [ s \in SourceIds |-> ProfileDefault ]
    /\ maxConcurrency = 2
    /\ failureCount = [ s \in SourceIds |-> 0 ]
    /\ budget = [ runs |-> MaxRunsNeighbours, advances |-> 0,
                  steps |-> { MIN_CRAWL_INTERVAL_MS },
                  faults |-> 0, restarts |-> 0, conns |-> 1,
                  breaks |-> 0, queries |-> 0, sweeps |-> 0,
                  offsets |-> {},
                  starts |-> 1, stops |-> 0, periodic |-> FALSE ]
    /\ Booted

InitCrawl ==
    InitFaults \/ InitSubscribers \/ InitOverlap \/ InitTransport
        \/ InitTrio \/ InitPreview \/ InitShutdown \/ InitRestart
        \/ InitNeighbours

CrawlStoreResolves == \E r \in runs : crawlStoreResolves(r)

CrawlStoreThrows == \E r \in runs : crawlStoreThrows(r)

LaunchResolves == \E r \in runs : launchResolves(r)

ExtractSucceeds == \E r \in runs : extractSucceeds(r)

ExtractFails == \E r \in runs : \E made \in BOOLEAN : extractFails(r, made)

CrawlReturns == \E r \in runs : crawlReturns(r)

ScheduledWritten == \E r \in runs : scheduledWritten(r)

ScheduledThrows == \E r \in runs : scheduledThrows(r)

Connect == \E c \in Connections : \E s \in RequestIds : connect(c, s)

ConnectUnconfigured ==
    \E c \in Connections : \E s \in RequestIds : connectUnconfigured(c, s)

ConnectSecond ==
    \E c \in Connections : \E s \in RequestIds : connectSecond(c, s)

ConnectFound == \E c \in Connections : connectFound(c)

ConnectLatest == \E c \in Connections : connectLatest(c)

TransportFails == \E c \in Connections : transportFails(c)

Close == \E c \in Connections : close(c)

Preview ==
    \E s \in SourceIds : \E valid, production \in BOOLEAN :
        preview(s, valid, production)

PreviewLaunched == \E ok \in BOOLEAN : previewLaunched(ok)

PreviewLoaded == \E ok \in BOOLEAN : previewLoaded(ok)

\* The Scheduler with the crawler and the Store: every step of start(),
\* stop(), tick(), runSource(), crawlSource() and cleanupHistory().
Next ==
    \/ startCalled
    \/ HydrateResolves
    \/ HydrateThrows
    \/ stop
    \/ Tick
    \/ Advance
    \/ CrawlStoreResolves
    \/ CrawlStoreThrows
    \/ LaunchResolves
    \/ ExtractSucceeds
    \/ ExtractFails
    \/ CrawlReturns
    \/ ScheduledWritten
    \/ ScheduledThrows
    \/ cleanupStarts
    \/ cleanupResolves
    \/ cleanupThrows

Spec == Init /\ [][Next]_vars

\* the regimes in which a slot can be lost, and the one with stop()
InitFair == InitQueue \/ InitWired \/ InitUpkeep

\* a step of a crawl under way: an answer of the Store or of the browser
CrawlMoves ==
    \/ CrawlStoreResolves
    \/ CrawlStoreThrows
    \/ LaunchResolves
    \/ ExtractSucceeds
    \/ ExtractFails
    \/ CrawlReturns
    \/ ScheduledWritten
    \/ ScheduledThrows

\* The same steps with the scheduling the code relies on: the Store answers
\* the findUnique of hydrateState, the tick interval fires every second
\* while it is set, crawlSource settles (the browser timeouts bound it) and
\* the Store answers every call of a crawl (it resolves or it throws).
SpecFair ==
    /\ InitFair
    /\ [][Next]_vars
    /\ WF_vars(HydrateResolves \/ HydrateThrows)
    /\ WF_vars(Tick)
    /\ WF_vars(CrawlMoves)

NextCrawl ==
    \/ startCalled
    \/ HydrateResolves
    \/ HydrateThrows
    \/ Tick
    \/ Advance
    \/ CrawlStoreResolves
    \/ CrawlStoreThrows
    \/ LaunchResolves
    \/ ExtractSucceeds
    \/ ExtractFails
    \/ CrawlReturns
    \/ ScheduledWritten
    \/ ScheduledThrows
    \/ Connect
    \/ ConnectUnconfigured
    \/ ConnectSecond
    \/ ConnectFound
    \/ ConnectLatest
    \/ Close
    \/ TransportFails
    \/ Preview
    \/ PreviewLaunched
    \/ PreviewLoaded
    \/ previewClosed
    \/ restart
    \/ shutdown
    \/ shutdownCrawler
    \/ exit

SpecCrawl == InitCrawl /\ [][NextCrawl]_vars

----------------------------------------------------------------------------
(* The retention window: crawls hours apart, the API, the WebSocket route   *)
(* and cleanupHistory on one Store.                                         *)

\* the dates a history request may give, as offsets from Date.now()
QueryOffsets == { 0 - RETENTION_WINDOW_MS - HourMs, 0 - HourMs, HourMs }

QueryDates ==
    { NoDate, InvalidDate } \cup { dateAt(now + o) : o \in budget.offsets }

\* One source that is crawled, a clock that moves by one hour or by the
\* length of the window, and requests to the API with dates at every
\* position relative to the window.
InitQueries ==
    /\ baseConfig \in crawlConfigs(ProfileDefault, { ProfileForbidden })
    /\ maxConcurrency = 2
    /\ failureCount = [ s \in SourceIds |-> 0 ]
    /\ budget = [ runs |-> MaxRunsStore, advances |-> MaxAdvancesStore,
                  steps |-> { HourMs, RETENTION_WINDOW_MS },
                  faults |-> 0, restarts |-> 0, conns |-> 0,
                  breaks |-> 0, queries |-> MaxQueries, sweeps |-> 0,
                  offsets |-> QueryOffsets,
                  starts |-> 1, stops |-> 0, periodic |-> FALSE ]
    /\ Booted

\* The same with cleanupHistory, whose Store call may throw, and requests
\* to the API with no date or one that cannot be parsed.
InitSweeps ==
    /\ baseConfig \in crawlConfigs(ProfileDefault, { ProfileForbidden })
    /\ maxConcurrency = 2
    /\ failureCount = [ s \in SourceIds |-> 0 ]
    /\ budget = [ runs |-> MaxRunsStore, advances |-> MaxAdvancesStore,
                  steps |-> { HourMs, RETENTION_WINDOW_MS },
                  faults |-> MaxFaults, restarts |-> 0, conns |-> 0,
                  breaks |-> 0, queries |-> MaxQueries,
                  sweeps |-> MaxSweeps,
                  offsets |-> {},
                  starts |-> 1, stops |-> 0, periodic |-> FALSE ]
    /\ Booted

\* The same with cleanupHistory and one WebSocket connection.
InitSocket ==
    /\ baseConfig \in crawlConfigs(ProfileDefault, { ProfileForbidden })
    /\ maxConcurrency = 2
    /\ failureCount = [ s \in SourceIds |-> 0 ]
    /\ budget = [ runs |-> MaxRunsStore, advances |-> MaxAdvancesStore,
                  steps |-> { HourMs, RETENTION_WINDOW_MS },
                  faults |-> 0, restarts |-> 0, conns |-> 1,
                  breaks |-> 0, queries |-> 0,
                  sweeps |-> MaxSweeps,
                  offsets |-> {},
                  starts |-> 1, stops |-> 0, periodic |-> FALSE ]
    /\ Booted

InitStore == InitQueries \/ InitSweeps \/ InitSocket

RequestLatest == \E s \in RequestIds : request("latest", s, NoDate, NoDate)

RequestHistory ==
    \E s \in RequestIds : \E from, to \in QueryDates :
        request("history", s, from, to)

NextStore ==
    \/ startCalled
    \/ HydrateResolves
    \/ Tick
    \/ Advance
    \/ CrawlStoreResolves
    \/ LaunchResolves
    \/ ExtractSucceeds
    \/ CrawlReturns
    \/ ScheduledWritten
    \/ Connect
    \/ ConnectUnconfigured
    \/ ConnectSecond
    \/ ConnectFound
    \/ ConnectLatest
    \/ RequestLatest
    \/ RequestHistory
    \/ apiFound
    \/ apiAnswers
    \/ cleanupStarts
    \/ cleanupResolves
    \/ cleanupThrows

SpecStore == InitStore /\ [][NextStore]_vars

----------------------------------------------------------------------------
(* cleanupHistory period after period.  In SpecStore the runs of            *)
(* cleanupHistory are counted and bounded; in SpecSweep the interval fires  *)
(* for as long as it is set, and deleteMany is answered.                    *)

\* One source that is crawled, a clock that moves by one hour or by the
\* length of the window, a Store of which two calls may throw, the create of
\* a finally block and deleteMany, and cleanupHistory without a bound on its
\* runs.
InitPeriodic ==
    /\ baseConfig \in crawlConfigs(ProfileDefault, { ProfileForbidden })
    /\ maxConcurrency = 2
    /\ failureCount = [ s \in SourceIds |-> 0 ]
    /\ budget = [ runs |-> MaxRunsPeriodic, advances |-> MaxAdvancesPeriodic,
                  steps |-> { HourMs, RETENTION_WINDOW_MS },
                  faults |-> MaxFaultsPeriodic, restarts |-> 0, conns |-> 0,
                  breaks |-> 0, queries |-> 0, sweeps |-> MaxSweepsCounted,
                  offsets |-> {},
                  starts |-> 1, stops |-> 0, periodic |-> TRUE ]
    /\ Booted

NextSweep ==
    \/ startCalled
    \/ HydrateResolves
    \/ Tick
    \/ Advance
    \/ CrawlStoreResolves
    \/ LaunchResolves
    \/ ExtractSucceeds
    \/ CrawlReturns
    \/ ScheduledWritten
    \/ ScheduledThrows
    \/ cleanupStarts
    \/ cleanupResolves
    \/ cleanupThrows

\* setInterval calls cleanupHistory every 60 s for as long as the interval
\* is set, and the Store answers a deleteMany (it resolves or it throws).
SpecSweep ==
    /\ InitPeriodic
    /\ [][NextSweep]_vars
    /\ WF_vars(cleanupStarts)
    /\ WF_vars(cleanupResolves \/ cleanupThrows)

----------------------------------------------------------------------------
(* Calls of start() while an earlier call hydrates, and calls of stop().    *)

\* Two sources of which one is allowed, two slots, a fresh Store of which
\* one call may throw; start() is called up to twice and stop() once.
InitLife ==
    /\ baseConfig \in soloConfigs({ ProfileDefault })
    /\ maxConcurrency = 2
    /\ failureCount = [ s \in SourceIds |-> 0 ]
    /\ budget = [ runs |-> MaxRunsLife, advances |-> MaxAdvancesLife,
                  steps |-> { MIN_CRAWL_INTERVAL_MS },
                  faults |-> MaxFaults, restarts |-> 0, conns |-> 0,
                  breaks |-> 0, queries |-> 0, sweeps |-> MaxSweepsLife,
                  offsets |-> {},
                  starts |-> MaxStarts, stops |-> MaxStops,
                  periodic |-> FALSE ]
    /\ Booted

SpecLife == InitLife /\ [][Next]_vars

----------------------------------------------------------------------------
(* The claims.  What a claim expects is written here from its own words,    *)
(* with its own numbers, and compared with what the actions above did.       *)

\* the source of the latest settled crawl
doneConfig == config[lastDone.source]

\* max(20000, configured interval)
flooredInterval(s) ==
    IF baseConfig[s].intervalMs < 20000 THEN 20000 ELSE baseConfig[s].intervalMs

\* x * (num / den)^k, one factor at a time
RECURSIVE scaled(_, _, _, _)
scaled(x, num, den, k) ==
    IF k = 0 THEN x ELSE scaled((x * num) \div den, num, den, k - 1)

\* min(effectiveInterval * backoffMultiplier^k, maxBackoffMs)
expectedBackoff(s, k) ==
    LET grown == scaled(flooredInterval(s), baseConfig[s].backoffNum,
                        baseConfig[s].backoffDen, k)
    IN  IF grown < baseConfig[s].maxBackoffMs
        THEN grown ELSE baseConfig[s].maxBackoffMs

\* s is enabled and due
isDue(s) ==
    /\ config[s].enabled
    /\ s \in DOMAIN state
    /\ now >= state[s].nextRun

\* C1: at most one run is in flight for a source: the scheduler never
\* dispatches a source while an earlier run of it has not finished.
C1_OneRunPerSource ==
    \A s \in SourceIds : Cardinality(activeRunsOf(runs, s)) <= 1

\* C2: the number of runs in progress, and the inFlight counter, are at most
\* maxConcurrency in every reachable state.
C2_ConcurrencyCap ==
    /\ inFlight <= maxConcurrency
    /\ Cardinality(runs) <= maxConcurrency

\* C2, its case: the cap is reached and a source that was due when another
\* was dispatched has been left waiting by that tick.
C2_CapReachedWitness ==
    /\ inFlight = maxConcurrency
    /\ Cardinality(runs) = maxConcurrency
    /\ \E s, u \in SourceIds :
          /\ s # u
          /\ isDue(s)
          /\ obs[u].lastStart >= state[s].nextRun
          /\ obs[s].lastStart < obs[u].lastStart

\* C3: every dispatched run releases its slot exactly once when it ends, on
\* every path, so the slots held are those of the runs that have not ended
\* (and none is held once all runs have ended).
C3_SlotReleasedOnEveryPath == inFlight = Cardinality(runs)

\* C4: the start times of two consecutive runs of a source are at least
\* 20000 ms apart.  Stated for a run that starts after the one before it
\* has ended, so that a violation does not rest on overlapping runs (C1).
C4_MinStartGap ==
    \A s \in SourceIds :
        (obs[s].prevStart >= 0 /\ obs[s].prevEnded)
            => obs[s].lastStart - obs[s].prevStart >= 20000

\* C5: effectiveIntervalMs = max(20000, intervalMs) for every source (5000
\* gives 20000, 30000 gives 30000), and the delay computed at a dispatch,
\* after a success and after a failure below the limit is built on it.
C5_EffectiveInterval ==
    /\ \A s \in SourceIds :
          /\ config[s].effectiveIntervalMs = flooredInterval(s)
          /\ baseConfig[s].intervalMs = 5000 => config[s].effectiveIntervalMs = 20000
          /\ baseConfig[s].intervalMs = 30000 => config[s].effectiveIntervalMs = 30000
    /\ \A r \in runs :
          (r.phase = "crawl" /\ activeRunsOf(runs, r.source) = { r }
              /\ obs[r.source].prevEnded)
            => state[r.source].nextRun
                 = obs[r.source].lastStart + flooredInterval(r.source) + r.jitter
    /\ lastDone.outcome = "success"
          => lastDone.delay = flooredInterval(lastDone.source) + lastDone.jitter
    /\ (lastDone.outcome = "failure"
          /\ lastDone.failuresAfter < doneConfig.failureLimit)
          => lastDone.delay
               = expectedBackoff(lastDone.source, lastDone.failuresAfter)
                   + lastDone.jitter

\* C5, its case: a crawl of a source configured below the floor has
\* succeeded, and its next run is one floor (plus jitter) away.
C5_FlooredWitness ==
    /\ lastDone.outcome = "success"
    /\ baseConfig[lastDone.source].intervalMs = 5000
    /\ lastDone.delay - lastDone.jitter = 20000

\* C6: a success resets the failure count to 0 whatever it was, and the next
\* run is due after the normal interval, not after 24h or a backoff.
C6_SuccessResets ==
    lastDone.outcome = "success"
        => /\ lastDone.failuresAfter = 0
           /\ lastDone.delay = doneConfig.effectiveIntervalMs + lastDone.jitter
           /\ lastDone.delay < 86400000
           /\ obs[lastDone.source].streak = 0

\* C6, its case: the success of a source whose count had reached the limit.
C6_ResetFromPauseWitness ==
    /\ lastDone.outcome = "success"
    /\ lastDone.failuresBefore >= doneConfig.failureLimit
    /\ lastDone.failuresAfter = 0

\* C7: after a success nextRun = completion time + effectiveIntervalMs +
\* jitter, jitter an integer in [-jitterMs, +jitterMs] and 0 when jitterMs
\* is 0; interval 1000 and jitter 0 give exactly 20000.
C7_SuccessDelay ==
    /\ \A r \in runs :
          /\ r.jitter \in -config[r.source].jitterMs .. config[r.source].jitterMs
          /\ config[r.source].jitterMs = 0 => r.jitter = 0
    /\ lastDone.outcome = "success"
          => /\ lastDone.delay = doneConfig.effectiveIntervalMs + lastDone.jitter
             /\ lastDone.jitter \in -doneConfig.jitterMs .. doneConfig.jitterMs
             /\ (doneConfig.intervalMs = 1000 /\ doneConfig.jitterMs = 0)
                   => lastDone.delay = 20000

\* C7, its case: a success of a run that drew a jitter other than 0.
C7_JitteredSuccessWitness ==
    /\ lastDone.outcome = "success"
    /\ lastDone.jitter # 0
    /\ lastDone.delay = 20000 + lastDone.jitter

\* C8: after a failure that brings the count to k below failureLimit,
\* nextRun = now + min(effectiveIntervalMs * backoffMultiplier^k,
\* maxBackoffMs) + jitter; multiplier 2, maxBackoffMs 3600000, effective
\* interval 20000 and jitter 0 give 40000, 80000, 160000, 320000 for k = 1..4.
C8_BackoffDelay ==
    (lastDone.outcome = "failure"
        /\ lastDone.failuresAfter < doneConfig.failureLimit)
      => /\ lastDone.delay
              = expectedBackoff(lastDone.source, lastDone.failuresAfter)
                  + lastDone.jitter
         /\ ( /\ doneConfig.backoffNum = 2 /\ doneConfig.backoffDen = 1
              /\ doneConfig.maxBackoffMs = 3600000
              /\ doneConfig.effectiveIntervalMs = 20000
              /\ lastDone.jitter = 0 )
              => /\ lastDone.failuresAfter = 1 => lastDone.delay = 40000
                 /\ lastDone.failuresAfter = 2 => lastDone.delay = 80000
                 /\ lastDone.failuresAfter = 3 => lastDone.delay = 160000
                 /\ lastDone.failuresAfter = 4 => lastDone.delay = 320000

\* C8, its case: the fourth failure in a row of the default schedule.
C8_FourthFailureWitness ==
    /\ lastDone.outcome = "failure"
    /\ lastDone.streak = 4
    /\ lastDone.failuresAfter = 4
    /\ doneConfig.failureLimit = 5
    /\ lastDone.delay = 320000

\* C9: after exactly failureLimit consecutive failures nextRun - now is
\* 24h exactly, with no jitter and no backoff term.
C9_PauseAfterLimit ==
    (lastDone.outcome = "failure"
        /\ ( \/ lastDone.streak = doneConfig.failureLimit
             \/ lastDone.failuresAfter = doneConfig.failureLimit ))
      => lastDone.delay = 86400000

\* C9, its case: the fifth failure in a row, after four growing backoffs.
C9_FifthFailureWitness ==
    /\ lastDone.outcome = "failure"
    /\ lastDone.streak = 5
    /\ doneConfig.failureLimit = 5
    /\ lastDone.delay = 86400000

\* C10: a paused source is not dispatched until 24h after the failure that
\* paused it, and then exactly one probe run is dispatched (a failed probe
\* pauses it again, a successful one ends the pause).
C10_PauseThenOneProbe ==
    \A s \in SourceIds :
        /\ obs[s].probes >= 1 => obs[s].lastStart >= obs[s].pausedAt + 86400000
        /\ obs[s].probes <= 1

\* how many times x occurs in a sequence
count(seq, x) == Cardinality({ i \in DOMAIN seq : seq[i] = x })

isPrefix(a, b) == Len(a) <= Len(b) /\ a = SubSeq(b, 1, Len(a))

\* a message that a handler sent for a payload of the event bus: `update`
\* with the first definition of registerWsServer, the payload itself with
\* the second
isUpdate(m) == m.event # ""

\* the `update` messages of a sequence of messages
updatesOf(msgs) == SelectSeq(msgs, isUpdate)

\* the handler of a connection is on the event bus
registered(c) == \E i \in DOMAIN listeners : listeners[i].conn = c

\* the `update` messages a step sends on a connection
newUpdates(c) == updatesOf(SubSeq(sent'[c], Len(sent[c]) + 1, Len(sent'[c])))

\* what a successful run does, in the order the claim gives
successOrder == << "running", "data", "success", "publish", "scheduled" >>

inClaimedOrder(log) ==
    isPrefix(SelectSeq(log, LAMBDA e : e # "reset"), successOrder)

\* C11: a restart does not defeat the 24h pause: a source whose persisted
\* failure count has reached failureLimit is not dispatched, restart or not,
\* until 24h after the failure that paused it.
C11_PauseSurvivesRestart ==
    \A s \in SourceIds :
        ( /\ obs[s].pausedAt >= 0
          /\ failureCount[s] >= config[s].failureLimit
          /\ obs[s].probes >= 1 )
          => obs[s].lastStart >= obs[s].pausedAt + 86400000

\* C12: a tick dispatches only sources that are enabled and due, earliest
\* nextRun first: a due source it leaves waiting has a nextRun not earlier
\* than that of any source it dispatches.
C12_EarliestDueFirst ==
    [][ dispatched' > dispatched =>
          LET started == { r.source : r \in runs' \ runs } IN
          \A s \in started :
              /\ isDue(s)
              /\ \A u \in SourceIds \ started :
                    isDue(u) => state[u].nextRun >= state[s].nextRun ]_vars

\* C12, its case: at the cap, the source that comes second in this.sources
\* has just been dispatched and the one that comes first, due as well, waits.
C12_LaterSourceFirstWitness ==
    /\ inFlight = maxConcurrency
    /\ \E i, j \in 1 .. Len(sources) :
          /\ i < j
          /\ isDue(sources[i])
          /\ obs[sources[i]].lastStart < now
          /\ obs[sources[j]].lastStart = now
          /\ obs[sources[j]].prevStart >= 0

\* C13: enabled is allowedToScrape AND enabled of the config and does not
\* change; a source with either flag false is never dispatched, never
\* crawled, by a run or by a preview, and never gets a DataPoint (nor a
\* StatusRecord).
C13_DisabledNeverCrawled ==
    /\ [] ( \A s \in SourceIds :
              /\ config[s].enabled
                   = (baseConfig[s].allowedToScrape /\ baseConfig[s].enabled)
              /\ ~(baseConfig[s].allowedToScrape /\ baseConfig[s].enabled)
                   => /\ obs[s].lastStart = -1
                      /\ activeRunsOf(runs, s) = {}
                      /\ \A i \in DOMAIN sourceData : sourceData[i].source # s
                      /\ \A i \in DOMAIN sourceStatus :
                            sourceStatus[i].source # s
                      /\ ~( /\ api.op = "preview" /\ api.source = s
                            /\ api.status = 200 ) )
    /\ [][ config' = config /\ baseConfig' = baseConfig ]_vars

\* C14: a successful run persists exactly one DataPoint, and a run recorded
\* as failed persists none.
C14_DataOnlyOnSuccess ==
    /\ lastCrawl.outcome = "success" => count(lastCrawl.log, "data") = 1
    /\ lastCrawl.outcome = "failure" => count(lastCrawl.log, "data") = 0

\* C15: every failed run appends exactly one error StatusRecord, increments
\* the failure count of the source by exactly 1 and publishes exactly one
\* error notification on the topic of the source.
C15_FailureRecordedOnce ==
    lastCrawl.outcome = "failure"
        => /\ count(lastCrawl.log, "error") = 1
           /\ count(lastCrawl.log, "increment") = 1
           /\ count(lastCrawl.log, "publishError") = 1

\* C16: crawlSource always returns normally: no run ends with the promise
\* of crawlSource rejected.
C16_CrawlNeverRejects ==
    lastCrawl.outcome # "none" => ~lastCrawl.rejected

\* C17: a successful run writes the running StatusRecord, the DataPoint, the
\* success StatusRecord, publishes, and then the Scheduled record is
\* written, in this order; every data update sent refers to a DataPoint
\* that is in the Store.
C17_EffectsInOrder ==
    /\ \A r \in runs :
          (crawlOf(r).outcome = "success" \/ count(crawlOf(r).log, "publish") > 0)
              => /\ inClaimedOrder(crawlOf(r).log)
                 /\ Len(crawlOf(r).log) >= 5
    /\ lastCrawl.outcome = "success"
          => /\ inClaimedOrder(lastCrawl.log)
             /\ Len(lastCrawl.log) >= 5
    /\ \A c \in Connections : \A i \in DOMAIN sent[c] :
          (isUpdate(sent[c][i]) /\ sent[c][i].payload.row # 0)
              => /\ sent[c][i].payload.row \in DOMAIN sourceData
                 /\ sourceData[sent[c][i].payload.row].source
                      = sent[c][i].source

\* C17, its case: a run has ended after all five effects, and a connection
\* was sent its DataPoint.
C17_FullRunWitness ==
    /\ lastCrawl.outcome = "success"
    /\ SelectSeq(lastCrawl.log, LAMBDA e : e # "reset") = successOrder
    /\ \E c \in Connections : \E i \in DOMAIN sent[c] :
          isUpdate(sent[c][i]) /\ sent[c][i].payload.row >= 1

\* C18: a DataPoint is delivered exactly once to a subscriber: no connection
\* is sent two `update` messages for the same DataPoint.
C18_OneUpdatePerDataPoint ==
    \A c \in Connections : \A row \in DOMAIN sourceData :
        Cardinality({ i \in DOMAIN sent[c] :
                        /\ isUpdate(sent[c][i])
                        /\ sent[c][i].payload.row = row }) <= 1

\* C19: a subscriber receives the data updates of its source in the order
\* in which their DataPoints were persisted.
C19_UpdatesInPersistOrder ==
    \A c \in Connections : \A i, j \in DOMAIN sent[c] :
        ( /\ i < j
          /\ isUpdate(sent[c][i]) /\ sent[c][i].payload.row # 0
          /\ isUpdate(sent[c][j]) /\ sent[c][j].payload.row # 0 )
          => sent[c][i].payload.row <= sent[c][j].payload.row

\* C20: two subscribers registered for the same source, the transport of
\* both working, are sent the same `update` messages in the same order:
\* every step sends the same updates on both connections.
C20_SameUpdatesForBoth ==
    [][ \A c, d \in Connections :
          ( /\ c # d
            /\ registered(c) /\ registered(d)
            /\ ~conns[c].broken /\ ~conns[d].broken
            /\ conns[c].source = conns[d].source )
            => newUpdates(c) = newUpdates(d) ]_vars

\* C21: the connect protocol runs in the order connected, latest,
\* registration: the first message of a connection that is accepted is
\* `connected`, no `update` is sent while the latest row is still being
\* asked for, and no `update` precedes the `latest` of its connection.
C21_ConnectedLatestThenUpdates ==
    \A c \in Connections :
        /\ (sent[c] # << >> /\ ~refused(conns[c].source))
              => sent[c][1].type = "connected"
        /\ conns[c].at = "findFirst" => updatesOf(sent[c]) = << >>
        /\ \A i, j \in DOMAIN sent[c] :
              (i < j /\ sent[c][j].type = "latest")
                  => ~isUpdate(sent[c][i])

\* the source asked for is not configured, or may not be crawled
unknownOrDisabled(s) ==
    s \notin SourceIds
        \/ ~(baseConfig[s].allowedToScrape /\ baseConfig[s].enabled)

\* C23: a subscription for an unknown or disabled source is refused with no
\* partial setup: its connection is never sent `connected` and never has a
\* listener on the event bus, and once the handler has ended it has been
\* sent the error, and nothing else, and is closed.
C23_RefusedWithoutSetup ==
    \A c \in Connections :
        ( /\ conns[c].at # "idle"
          /\ ~conns[c].broken
          /\ unknownOrDisabled(conns[c].source) )
          => /\ ~registered(c)
             /\ \A i \in DOMAIN sent[c] : sent[c][i].type = "error"
             /\ Len(sent[c]) <= 1
             /\ conns[c].at = "done"
                  => (Len(sent[c]) = 1 /\ ~conns[c].open)

\* C24: a connection that has closed has no listener on the event bus,
\* whenever it closed: the listeners are those of open connections.
C24_ClosedMeansDeregistered ==
    \A c \in Connections : ~conns[c].open => ~registered(c)

\* C25: a send that throws during a publish is isolated: when the last
\* Store call of a successful crawl resolves, every other subscriber of the
\* source is sent the update and the run goes on as a success, the failure
\* count at 0.
C25_SendFailureIsolated ==
    [][ \A r \in runs :
          ( /\ crawlOf(r).at = "updateSuccess"
            /\ r.id \in DOMAIN pc'
            /\ pc'[r.id].at # "updateSuccess"
            /\ faults' = faults )
            => /\ \A c \in Connections :
                    ( /\ registered(c) /\ ~conns[c].broken
                      /\ conns[c].source = r.source )
                      => newUpdates(c) # << >>
               /\ pc'[r.id].outcome = "success"
               /\ pc'[r.id].at = "closeContext"
               /\ failureCount'[r.source] = 0 ]_vars

\* the rows of source s in the Store that were scraped at or after time t
scrapedSince(s, t) ==
    { i \in DOMAIN sourceData :
        sourceData[i].source = s /\ sourceData[i].scrapedAt >= t }

\* the greatest scrapedAt among the rows at the positions in S
newest(S) ==
    { i \in S : \A j \in S : sourceData[j].scrapedAt <= sourceData[i].scrapedAt }

\* C22: the window of a connection starts 4 hours before the time it was
\* accepted; a connection for an enabled source is sent `latest` by the
\* time its handler ends, with the row of greatest scrapedAt among the rows
\* of its source in the window, and nothing when no row of its source lies
\* in the window.
C22_LatestIsNewestInWindow ==
    [][ \A c \in Connections :
          /\ (conns[c].at = "findUnique" /\ conns'[c].at = "findFirst")
                => conns'[c].cutoff = now - 14400000
          /\ ( /\ conns[c].at # "done" /\ conns'[c].at = "done"
               /\ ~unknownOrDisabled(conns'[c].source)
               /\ ~conns[c].broken /\ restarts' = restarts )
                => LET inWindow == scrapedSince(conns'[c].source,
                                                now - 14400000)
                   IN  IF inWindow = {}
                       THEN \A k \in DOMAIN sent'[c] :
                               sent'[c][k].type # "latest"
                       ELSE /\ Len(sent'[c]) = Len(sent[c]) + 1
                            /\ sent'[c][Len(sent'[c])].type = "latest"
                            /\ \E i \in newest(inWindow) :
                                  sourceData[i].id
                                      = sent'[c][Len(sent'[c])].payload.row ]_vars

\* C26: no DataPoint older than the window is returned: every row that the
\* API answers with (latest or history), and every row sent as `latest` on a
\* connection, was scraped no more than 4 hours before the time of the
\* query, whether cleanupHistory has run or not.
C26_NothingOlderThanWindow ==
    [][ /\ (api.status # 200 /\ api'.status = 200)
              => \A k \in DOMAIN api'.rows :
                    api'.rows[k].scrapedAt >= now - 14400000
        /\ \A c \in Connections :
              \A k \in Len(sent[c]) + 1 .. Len(sent'[c]) :
                  sent'[c][k].type = "latest"
                      => \E i \in DOMAIN sourceData :
                            /\ sourceData[i].id = sent'[c][k].payload.row
                            /\ sourceData[i].scrapedAt >= now - 14400000 ]_vars

\* C26, its case: the Store holds a row of the source that is older than
\* the window and was not swept, the history was asked for from before the
\* window, and the answer has the row inside the window only.
C26_StaleRowLeftOutWitness ==
    /\ api.op = "history" /\ api.status = 200
    /\ api.from.kind = "date"
    /\ api.from.ms < api.askedAt - 14400000
    /\ Len(api.rows) = 1
    /\ sweep.started = 0
    /\ \E i \in DOMAIN sourceData :
          /\ sourceData[i].source = api.source
          /\ sourceData[i].scrapedAt < api.askedAt - 14400000
          /\ sourceData[i].scrapedAt >= api.from.ms

\* C27: latest(sourceId) answers "not found" for a source that is unknown
\* or disabled, without asking for rows; otherwise it answers with the row
\* of greatest scrapedAt among the rows of the source in the window, and
\* "not found" when the source has no row in the window.
C27_LatestOrNotFound ==
    [][ api.op = "latest" =>
          /\ (api.at = "findUnique" /\ api'.at # "findUnique")
                => IF unknownOrDisabled(api.source)
                   THEN /\ api'.at = "done" /\ api'.status = 404
                        /\ api'.rows = << >>
                   ELSE api'.at = "findFirst"
          /\ (api.at = "findFirst" /\ api'.at = "done")
                => LET inWindow == scrapedSince(api.source, now - 14400000)
                   IN  IF inWindow = {}
                       THEN api'.status = 404 /\ api'.rows = << >>
                       ELSE /\ api'.status = 200
                            /\ \E i \in newest(inWindow) :
                                  api'.rows = << sourceData[i] >> ]_vars

\* C27, its case: the only row of an enabled source is 5 hours old, not
\* swept, and latest answered "not found".
C27_FiveHoursOldWitness ==
    /\ api.op = "latest" /\ api.at = "done" /\ api.status = 404
    /\ api.source \in SourceIds
    /\ config[api.source].enabled
    /\ Len(sourceData) = 1
    /\ sourceData[1].source = api.source
    /\ sourceData[1].scrapedAt = api.askedAt - 18000000

\* the history of an enabled source was asked for
historyAsked ==
    /\ api.op = "history"
    /\ ~unknownOrDisabled(api.source)
    /\ api.at # "findUnique"

\* C28: history with a date that cannot be parsed, or with from later than
\* to, answers "invalid range" with no rows and never asks for rows,
\* wherever from and to lie relative to the window.
C28_InvalidRangeRefused ==
    ( /\ historyAsked
      /\ \/ api.from.kind = "invalid"
         \/ api.to.kind = "invalid"
         \/ /\ api.from.kind = "date" /\ api.to.kind = "date"
            /\ api.from.ms > api.to.ms )
      => /\ api.at = "done"
         /\ api.status = 400
         /\ api.rows = << >>

\* C28, its case: from is inside the window and to is before it, with a row
\* of the source in the Store.
C28_FromAfterToWitness ==
    /\ historyAsked
    /\ api.from.kind = "date" /\ api.to.kind = "date"
    /\ api.from.ms > api.askedAt - 14400000
    /\ api.from.ms < api.askedAt
    /\ api.to.ms < api.askedAt - 14400000
    /\ api.status = 400
    /\ \E i \in DOMAIN sourceData : sourceData[i].source = api.source

\* C29: history answers "invalid range" only for a date that cannot be
\* parsed or for from later than to: for two dates with from <= to the
\* answer is the rows between from, raised to the start of the window, and
\* to, lowered to the time of the query, or "not found" when there is none.
C29_ValidRangeNeverInvalid ==
    ( /\ historyAsked
      /\ api.at = "done"
      /\ api.from.kind = "date" /\ api.to.kind = "date"
      /\ api.from.ms <= api.to.ms )
      => /\ api.status \in { 200, 404 }
         /\ \A k \in DOMAIN api.rows :
               /\ api.rows[k].scrapedAt >= api.from.ms
               /\ api.rows[k].scrapedAt >= api.askedAt - 14400000
               /\ api.rows[k].scrapedAt <= api.to.ms
               /\ api.rows[k].scrapedAt <= api.askedAt

\* C30: a run of cleanupHistory that succeeds deletes the DataPoints scraped
\* more than 4 hours before and no other, and changes nothing else: not
\* the state of the scheduler, not the other tables of the Store.
C30_SweepDeletesOnlyStale ==
    [][ (sweep.at = "deleteMany" /\ sweep'.at = "idle"
           /\ sweep'.failed = sweep.failed)
          => /\ sourceData' = SelectSeq(sourceData,
                    LAMBDA row : row.scrapedAt >= now - 14400000)
             /\ UNCHANGED << state, runs, inFlight, timer, config,
                             failureCount, sourceStatus, listeners, conns,
                             sent, pc, dispatched >> ]_vars

\* C30, its case: of two DataPoints an hour apart the first was deleted and
\* the second, scraped exactly 4 hours before the sweep, stayed.
C30_BoundaryRowKeptWitness ==
    /\ sweep.deleted = 1
    /\ sweep.at = "idle"
    /\ Len(sourceData) = 1
    /\ sourceData[1].id = 2
    /\ sourceData[1].scrapedAt = sweep.cutoff

\* C37: when a run fails below the failure limit, the delay to the next run
\* before jitter is never shorter than the effective interval of the source.
C37_BackoffNotBelowInterval ==
    (lastDone.outcome = "failure"
        /\ lastDone.failuresAfter < doneConfig.failureLimit)
      => lastDone.delay - lastDone.jitter >= doneConfig.effectiveIntervalMs

\* C39: dispatching or completing a run of source A changes only A's runtime
\* state: the nextRun and the failures of a source change only in a step
\* that dispatches a run of this source or runs the try/catch of runSource
\* for one of its runs, and the failures only in the latter.
C39_OnlyOwnRunsChangeState ==
    [][ \A b \in DOMAIN state \cap DOMAIN state' :
          /\ state'[b] # state[b]
                => \E r \in runs' \ runs : r.source = b
          /\ state'[b].failures # state[b].failures
                => \E r \in runs' \ runs :
                      r.source = b /\ r.phase = "final" ]_vars

\* C39, its case: a run of a has failed and moved a's nextRun and failures
\* while a run of b was in flight, and b's entry is as its dispatch left it.
C39_OtherSourceUntouchedWitness ==
    /\ lastDone.source = "a"
    /\ lastDone.outcome = "failure"
    /\ state["a"].failures = 1
    /\ state["a"].nextRun = now + lastDone.delay
    /\ \E r \in runs : r.source = "b" /\ r.phase = "crawl"
    /\ state["b"].failures = 0
    /\ state["b"].nextRun = now + config["b"].effectiveIntervalMs
    /\ state["b"].nextRun # state["a"].nextRun

\* C34: whenever no run of a source is in flight, the failures the scheduler
\* keeps in memory for it equal the failureCount of its Source row in the
\* Store: after hydration and after every run that ended, whether it
\* succeeded, failed in the extraction or failed in a Store call.
C34_FailuresMatchStore ==
    \A s \in DOMAIN state :
        activeRunsOf(runs, s) = {} => state[s].failures = failureCount[s]

\* C38: a subscriber of source A is only ever sent messages about source A:
\* every message on its connection carries A's id, and the DataPoint of
\* every update and latest is a DataPoint of A, although every handler
\* listens on the shared event.
C38_OnlyOwnSource ==
    \A c \in Connections :
        \A k \in DOMAIN sent[c] :
            /\ sent[c][k].source = conns[c].source
            /\ sent[c][k].payload.row # 0
                  => sourceData[sent[c][k].payload.row].source
                        = conns[c].source

\* C38, its case: a and b were crawled side by side with a subscriber of a
\* registered before either DataPoint was written; b's run published its
\* DataPoint and the subscriber has the two updates of a's and nothing else.
C38_NeighbourPublishedWitness ==
    /\ runs = {}
    /\ Len(sourceData) = 2
    /\ sourceData[1].source = "a"
    /\ sourceData[2].source = "b"
    /\ lastCrawl.source = "b"
    /\ lastCrawl.outcome = "success"
    /\ \E c \in Connections :
          /\ conns[c].source = "a"
          /\ conns[c].at = "done"
          /\ registered(c)
          /\ Len(sent[c]) = 3
          /\ sent[c][1].type = "connected"
          /\ Len(updatesOf(sent[c])) = 2

\* C40: once the connection of a subscriber has closed, no further message
\* is sent on it: no step appends to what was sent on a connection that is
\* closed, also when it closed while the handler awaited findFirst.
C40_NothingSentAfterClose ==
    [][ \A c \in Connections :
          (conns[c].at # "idle" /\ ~conns[c].open) => sent'[c] = sent[c] ]_vars

\* C33: between the start of the process and shutdownCrawler the browser is
\* launched at most once, for any number of concurrent runs, also when
\* several runs start before the first launch has completed.
C33_BrowserLaunchedOnce == browser.launches - browser.closed <= 1

\* C35: after stop() has returned, no tick and no sweep fires and no new run
\* is dispatched, also when stop() was called while a call of start() was
\* still hydrating: no interval is active and no step dispatches a run or
\* starts cleanupHistory.
C35_NothingFiresAfterStop ==
    [][ life.stopped
          => /\ life.ticking = {} /\ life.sweeping = {}
             /\ dispatched' = dispatched
             /\ sweep'.started = sweep.started ]_vars

\* C36: start() is idempotent: once a call of start() has set the timers,
\* exactly one tick interval and one cleanup interval are active whatever
\* the number of calls, and a single stop() cancels all of them: the step
\* of stop() leaves no interval active.
C36_OneTimerPair ==
    [][ /\ life.timer # 0
              => /\ Cardinality(life.ticking) = 1
                 /\ Cardinality(life.sweeping) = 1
        /\ life'.stops # life.stops
              => /\ life'.ticking = {} /\ life'.sweeping = {} ]_vars

\* a DataPoint with this id is in the Store and has aged out of the window
agedOut(id) ==
    \E i \in DOMAIN sourceData :
        /\ sourceData[i].id = id
        /\ sourceData[i].scrapedAt < now - 14400000

\* C31: a failing sweep is never fatal and is retried on the next period:
\* the step in which deleteMany throws changes nothing of the scheduler and
\* leaves the intervals set, and, whatever the crawl traffic, every
\* DataPoint that has aged out of the window while the scheduler is started
\* is eventually deleted.
C31_FailedSweepRetried ==
    /\ [][ sweep'.failed # sweep.failed
              => /\ timer' /\ sweep'.at = "idle"
                 /\ UNCHANGED << life, state, inFlight, runs, sourceData,
                                 pc, dispatched >> ]_vars
    /\ \A id \in 1 .. MaxRunsPeriodic :
          (timer /\ agedOut(id))
              ~> (\A i \in DOMAIN sourceData : sourceData[i].id # id)

\* C31, its case: a sweep has failed, a later one has deleted the DataPoint
\* that had aged out, and it did so with a run in flight and the in-flight
\* count at the cap.
C31_DeletedAfterFailureWitness ==
    /\ sweep.failed = 1
    /\ sweep.deleted = 1
    /\ sweep.at = "idle"
    /\ inFlight = maxConcurrency
    /\ runs # {}
    /\ sourceData = << >>

\* C32: scheduling is non-starving: under fair ticks and with every run
\* terminating, an enabled source that is due is eventually dispatched (it
\* is no longer due), as long as the Scheduler is not stopped and the runs
\* of the behaviour are not used up (a tick dispatches up to maxConcurrency
\* runs).
C32_DueSourceDispatched ==
    \A s \in SourceIds :
        (timer /\ isDue(s) /\ dispatched + maxConcurrency <= budget.runs)
            ~> \/ ~isDue(s)
               \/ dispatched + maxConcurrency > budget.runs
               \/ ~timer

====
